---- MODULE Spec2Model ----
(***************************************************************************)
(* Streaming extraction pipeline of the slide studio: the SSE framer       *)
(* (sse.ts), the extraction state machine (extractSlides.ts) and the read  *)
(* loop of callGlmAgent (glm api module).                                  *)
(*                                                                         *)
(* Strings are sequences of characters.  A character is a one-letter TLA+  *)
(* string; the characters that need escaping are named: "LF" is the line   *)
(* feed, "CR" the carriage return, "TAB" the tab, "BSL" the backslash,     *)
(* "QT" the double quote and "BT" the backtick.                            *)
(***************************************************************************)
EXTENDS Integers, Sequences, FiniteSets, TLC

LF == "LF"
CR == "CR"
TAB == "TAB"
BSL == "BSL"
QT == "QT"
BT == "BT"
SP == " "

(* JavaScript's optional values: undefined is the empty sequence, a value   *)
(* x is <<x>>.                                                              *)
Undefined == <<>>
Some(x) == <<x>>

-----------------------------------------------------------------------------
(* String helpers (String.prototype methods used by the source).           *)

\* s.slice(from) with a 0-based index, as in JavaScript
sliceFrom(s, from) == SubSeq(s, from + 1, Len(s))

\* s.slice(from, to) with 0-based indices, to exclusive
slice(s, from, to) == SubSeq(s, from + 1, to)

\* s.indexOf(c): 0-based index of the first occurrence of character c, or -1
indexOf(s, c) ==
    IF \E k \in 1..Len(s) : s[k] = c
    THEN (CHOOSE k \in 1..Len(s) : s[k] = c /\ \A j \in 1..(k - 1) : s[j] # c) - 1
    ELSE -1

\* s.endsWith(c) and s.startsWith(c) for one character
endsWith(s, c) == Len(s) > 0 /\ s[Len(s)] = c
startsWith(s, c) == Len(s) > 0 /\ s[1] = c

\* s.startsWith(t) and s.endsWith(t) for a string t
startsWithStr(s, t) == Len(s) >= Len(t) /\ SubSeq(s, 1, Len(t)) = t
endsWithStr(s, t) == Len(s) >= Len(t) /\ SubSeq(s, Len(s) - Len(t) + 1, Len(s)) = t

\* \s of the regular expressions, over the model's alphabet
IsSpace(c) == c \in {SP, LF, CR, TAB}

\* s.trim()
RECURSIVE trimStart(_)
trimStart(s) == IF Len(s) > 0 /\ IsSpace(s[1]) THEN trimStart(Tail(s)) ELSE s

RECURSIVE trimEnd(_)
trimEnd(s) ==
    IF Len(s) > 0 /\ IsSpace(s[Len(s)]) THEN trimEnd(SubSeq(s, 1, Len(s) - 1)) ELSE s

trim(s) == trimEnd(trimStart(s))

LowerLetters ==
    <<"a", "b", "c", "d", "e", "f", "g", "h", "i", "j", "k", "l", "m",
      "n", "o", "p", "q", "r", "s", "t", "u", "v", "w", "x", "y", "z">>

UpperLetters ==
    <<"A", "B", "C", "D", "E", "F", "G", "H", "I", "J", "K", "L", "M",
      "N", "O", "P", "Q", "R", "S", "T", "U", "V", "W", "X", "Y", "Z">>

\* [a-z] under the /i flag
IsLetter(c) == \E k \in 1..26 : c = LowerLetters[k] \/ c = UpperLetters[k]

\* the /i flag: matching is done on the lower-cased character
toLower(c) ==
    IF \E k \in 1..26 : c = UpperLetters[k]
    THEN LowerLetters[CHOOSE k \in 1..26 : c = UpperLetters[k]]
    ELSE c

lowerStr(s) == [k \in 1..Len(s) |-> toLower(s[k])]

-----------------------------------------------------------------------------
(* sse.ts: createSSEParser                                                 *)

Digits == {"0", "1", "2", "3", "4", "5", "6", "7", "8", "9"}

DigitVal(c) ==
    CASE c = "0" -> 0 [] c = "1" -> 1 [] c = "2" -> 2 [] c = "3" -> 3
      [] c = "4" -> 4 [] c = "5" -> 5 [] c = "6" -> 6 [] c = "7" -> 7
      [] c = "8" -> 8 [] c = "9" -> 9

RECURSIVE DecimalVal(_)
DecimalVal(s) ==
    IF s = <<>> THEN 0
    ELSE 10 * DecimalVal(SubSeq(s, 1, Len(s) - 1)) + DigitVal(s[Len(s)])

\* Number(val) for strings of the model's alphabet: surrounding white space
\* is skipped, the empty string is 0, an optionally signed run of decimal
\* digits is its value, anything else is NaN.
Number(val) ==
    LET t == trim(val)
        signed == Len(t) > 0 /\ t[1] \in {"-", "+"}
        body == IF signed THEN Tail(t) ELSE t
    IN  IF t = <<>> THEN [nan |-> FALSE, n |-> 0]
        ELSE IF body # <<>> /\ \A k \in 1..Len(body) : body[k] \in Digits
        THEN [nan |-> FALSE,
              n |-> IF signed /\ t[1] = "-" THEN 0 - DecimalVal(body) ELSE DecimalVal(body)]
        ELSE [nan |-> TRUE, n |-> 0]

\* as NumberOrUndefined, with ?? in place of ||: a zero is kept
NumberKeepZero(val) ==
    LET r == Number(val)
    IN  IF r.nan THEN Undefined ELSE Some(r.n)

\* Number(val) || undefined
NumberOrUndefined(val) ==
    LET r == Number(val)
    IN  IF r.nan \/ r.n = 0 THEN Undefined ELSE Some(r.n)

F_event == <<"e", "v", "e", "n", "t">>
F_data == <<"d", "a", "t", "a">>
F_id == <<"i", "d">>
F_retry == <<"r", "e", "t", "r", "y">>
MESSAGE == <<"m", "e", "s", "s", "a", "g", "e">>

\* let ev: SSEEvent = { event: "message", data: "" }
NewEvent == [event |-> MESSAGE, data |-> <<>>, id |-> Undefined, retry |-> Undefined]

\* let buffer = ""; let ev = ...   (out: the onEvent calls of one feed call)
createSSEParser == [buffer |-> <<>>, ev |-> NewEvent, out |-> <<>>]

\* !ev.id : undefined and the empty string are both falsy
IdFalsy(ev) == ev.id = Undefined \/ ev.id = Some(<<>>)

\* as dispatch, looking at the data alone
dispatchDataOnly(ev) ==
    IF ev.data = <<>>
    THEN [ev |-> ev, out |-> <<>>]
    ELSE [ev |-> NewEvent, out |-> <<ev>>]

\* function dispatch(): the event after the call and the onEvent calls made
dispatch(ev) ==
    IF ev.data = <<>> /\ IdFalsy(ev) /\ ev.retry = Undefined
    THEN [ev |-> ev, out |-> <<>>]
    ELSE [ev |-> NewEvent, out |-> <<ev>>]

\* as appendData, without the separator
appendDataNoSeparator(data, val) == data \o val

\* ev.data += (ev.data ? "\n" : "") + val
appendData(data, val) == data \o (IF data # <<>> THEN <<LF>> ELSE <<>>) \o val

\* the body of the scanning loop for one non-blank line
applyField(ev, line) ==
    LET sep == indexOf(line, ":")
        field == IF sep = -1 THEN line ELSE slice(line, 0, sep)
        val0 == IF sep = -1 THEN <<>> ELSE sliceFrom(line, sep + 1)
        val == IF startsWith(val0, SP) THEN sliceFrom(val0, 1) ELSE val0
    IN  CASE field = F_event -> [ev EXCEPT !.event = val]
          [] field = F_data -> [ev EXCEPT !.data = appendData(ev.data, val)]
          [] field = F_id -> [ev EXCEPT !.id = Some(val)]
          [] field = F_retry -> [ev EXCEPT !.retry = NumberOrUndefined(val)]
          [] OTHER -> ev

\* while (true) { const nl = buffer.indexOf("\n", i); ... } buffer = buffer.slice(i)
RECURSIVE scanLines(_, _, _)
scanLines(buffer, ev, out) ==
    LET nl == indexOf(buffer, LF)
    IN  IF nl = -1 THEN [buffer |-> buffer, ev |-> ev, out |-> out]
        ELSE LET raw == slice(buffer, 0, nl)
                 line == IF endsWith(raw, CR) THEN slice(raw, 0, Len(raw) - 1) ELSE raw
                 rest == sliceFrom(buffer, nl + 1)
             IN  IF line = <<>>
                 THEN LET d == dispatch(ev) IN scanLines(rest, d.ev, out \o d.out)
                 ELSE scanLines(rest, applyField(ev, line), out)

\* if (opts.flush && buffer) { ev.data += ...buffer; buffer = ""; dispatch(); }
finalFlush(p) ==
    IF p.buffer # <<>>
    THEN LET d == dispatch([p.ev EXCEPT !.data = appendData(p.ev.data, p.buffer)])
         IN  [buffer |-> <<>>, ev |-> d.ev, out |-> p.out \o d.out]
    ELSE p

\* the end of feed: the final flush when opts.flush is set
flushIf(scanned, flush) == IF flush THEN finalFlush(scanned) ELSE scanned

\* as feed, scanning the chunk alone: the buffered partial line is lost
feedDropsTail(p, chunk, flush) == flushIf(scanLines(chunk, p.ev, <<>>), flush)

\* function feed(chunk, opts): the parser after the call; out holds the
\* onEvent calls this call made, in order
feed(p, chunk, flush) == flushIf(scanLines(p.buffer \o chunk, p.ev, <<>>), flush)

-----------------------------------------------------------------------------
(* extractSlides.ts: the extraction state machine                          *)

\* toolState: a function from the positions seen so far to their entries
createExtractionState == [toolState |-> <<>>, assistantBuf |-> <<>>]

NewToolState == [buf |-> <<>>, lastLen |-> 0, finalized |-> FALSE]

\* as upsertPos, a new entry replacing the whole table
upsertPosAlone(state, pos) ==
    IF pos \in DOMAIN state.toolState THEN state
    ELSE [state EXCEPT !.toolState = (pos :> NewToolState)]

\* state.toolState[pos] ||= { buf: "", lastLen: 0, finalized: false }
upsertPos(state, pos) ==
    IF pos \in DOMAIN state.toolState THEN state
    ELSE [state EXCEPT !.toolState = (pos :> NewToolState) @@ state.toolState]

Str_fence == <<BT, BT, BT>>
Str_html == <<"h", "t", "m", "l">>
Str_doctype == <<"<", "!", "d", "o", "c", "t", "y", "p", "e", SP, "h", "t", "m", "l">>
Str_htmlOpen == <<"<", "h", "t", "m", "l">>
Str_htmlClose == <<"<", "/", "h", "t", "m", "l", ">">>

\* s.replace(/^```(?:html)?\s*/i, "")
stripLeadingFence(s) ==
    IF startsWithStr(s, Str_fence)
    THEN LET a == sliceFrom(s, 3)
             b == IF startsWithStr(lowerStr(a), Str_html) THEN sliceFrom(a, 4) ELSE a
         IN  trimStart(b)
    ELSE s

\* s.replace(/\s*```$/i, "")
stripTrailingFence(s) ==
    IF endsWithStr(s, Str_fence) THEN trimEnd(slice(s, 0, Len(s) - 3)) ELSE s

stripFences(s) == stripTrailingFence(stripLeadingFence(s))

\* /\\n|\\t|\\"/.test(s)
hasEscape(s) == \E k \in 1..(Len(s) - 1) : s[k] = BSL /\ s[k + 1] \in {"n", "t", QT}

\* /<[a-z!/]/i.test(s)
hasTagOpen(s) ==
    \E k \in 1..(Len(s) - 1) : s[k] = "<" /\ (IsLetter(s[k + 1]) \/ s[k + 1] \in {"!", "/"})

\* the character a JSON escape stands for ("BS" and "FF" are the backspace
\* and the form feed)
Unescaped(c) ==
    CASE c = "n" -> LF
      [] c = "t" -> TAB
      [] c = "r" -> CR
      [] c = "b" -> "BS"
      [] c = "f" -> "FF"
      [] OTHER -> c

\* JSON.parse(`"${s}"`): ok is FALSE when it throws.  A bare quote, a bare
\* control character, a backslash before anything but " \ / b f n r t, and
\* a trailing backslash are syntax errors (the model's chunks hold no \u).
RECURSIVE jsonParseString(_)
jsonParseString(s) ==
    IF s = <<>> THEN [ok |-> TRUE, val |-> <<>>]
    ELSE IF s[1] = BSL
    THEN IF Len(s) >= 2 /\ s[2] \in {QT, BSL, "/", "b", "f", "n", "r", "t"}
         THEN LET r == jsonParseString(sliceFrom(s, 2))
              IN  [ok |-> r.ok, val |-> <<Unescaped(s[2])>> \o r.val]
         ELSE [ok |-> FALSE, val |-> <<>>]
    ELSE IF s[1] \in {QT, LF, CR, TAB}
    THEN [ok |-> FALSE, val |-> <<>>]
    ELSE LET r == jsonParseString(Tail(s))
         IN  [ok |-> r.ok, val |-> <<s[1]>> \o r.val]

\* s.replace(/\\c/g, r) for one escaped character c
RECURSIVE replaceEscape(_, _, _)
replaceEscape(s, c, r) ==
    IF s = <<>> THEN <<>>
    ELSE IF Len(s) >= 2 /\ s[1] = BSL /\ s[2] = c
    THEN <<r>> \o replaceEscape(sliceFrom(s, 2), c, r)
    ELSE <<s[1]>> \o replaceEscape(Tail(s), c, r)

maybeDecodeJsonString(s) ==
    IF hasEscape(s) /\ ~hasTagOpen(s)
    THEN LET parsed == jsonParseString(s)
         IN  IF parsed.ok THEN parsed.val
             ELSE replaceEscape(replaceEscape(s, "n", LF), QT, QT)
    ELSE s

\* /^\s*<!doctype html/i.test(c) || /^\s*<html[\s>]/i.test(c)
isDocStart(c) ==
    LET t == lowerStr(trimStart(c))
    IN  \/ startsWithStr(t, Str_doctype)
        \/ /\ startsWithStr(t, Str_htmlOpen)
           /\ Len(t) >= 6
           /\ (IsSpace(t[6]) \/ t[6] = ">")

\* as isComplete, matching "</html>" exactly at the very end
isCompleteExact(buf) == endsWithStr(buf, Str_htmlClose)

\* /<\/html>\s*$/i.test(buf)
isComplete(buf) == endsWithStr(lowerStr(trimEnd(buf)), Str_htmlClose)

\* as growTail, appending the whole snapshot
growWhole(cleanedRaw, lastLen) == cleanedRaw

\* const tail = cleanedRaw.slice(s.lastLen)
growTail(cleanedRaw, lastLen) == sliceFrom(cleanedRaw, lastLen)

LogLine(kind, p) == [kind |-> kind, pos |-> p]

\* as shrinkLastLen, tracking the chunk's length as the growth branch does
shrinkLastLenOfChunk(buf, cleanedRaw) == Len(cleanedRaw)

\* s.buf += cleanedRaw; s.lastLen = s.buf.length
shrinkLastLen(buf, cleanedRaw) == Len(buf \o cleanedRaw)

\* as classify, testing growth before the document start
classifyGrowthFirst(s, cleanedRaw, p) ==
    IF Len(cleanedRaw) > s.lastLen
    THEN [s |-> [s EXCEPT !.buf = @ \o growTail(cleanedRaw, s.lastLen),
                          !.lastLen = Len(cleanedRaw)],
          logs |-> <<LogLine("grow", p)>>]
    ELSE IF isDocStart(cleanedRaw)
    THEN [s |-> [s EXCEPT !.buf = cleanedRaw, !.lastLen = Len(cleanedRaw)],
          logs |-> <<LogLine("reset", p)>>]
    ELSE IF Len(cleanedRaw) < s.lastLen /\ Len(cleanedRaw) > 0
    THEN [s |-> [s EXCEPT !.buf = @ \o cleanedRaw, !.lastLen = shrinkLastLen(s.buf, cleanedRaw)],
          logs |-> <<LogLine("non-monotonic", p)>>]
    ELSE [s |-> s, logs |-> <<>>]

\* the if / else if chain of onToolChunk (reset, growth, shrink, bootstrap):
\* the entry after it and the lines logged
classify(s, cleanedRaw, p) ==
    IF isDocStart(cleanedRaw)
    THEN [s |-> [s EXCEPT !.buf = cleanedRaw, !.lastLen = Len(cleanedRaw)],
          logs |-> <<LogLine("reset", p)>>]
    ELSE IF Len(cleanedRaw) > s.lastLen
    THEN LET tail == growTail(cleanedRaw, s.lastLen)
         IN  IF tail # <<>>
             THEN [s |-> [s EXCEPT !.buf = @ \o tail, !.lastLen = Len(cleanedRaw)],
                   logs |-> <<LogLine("grow", p)>>]
             ELSE [s |-> s, logs |-> <<>>]
    ELSE IF Len(cleanedRaw) < s.lastLen /\ Len(cleanedRaw) > 0
    THEN [s |-> [s EXCEPT !.buf = @ \o cleanedRaw, !.lastLen = shrinkLastLen(s.buf, cleanedRaw)],
          logs |-> <<LogLine("non-monotonic", p)>>]
    ELSE IF Len(cleanedRaw) > 0 /\ s.lastLen = 0
    THEN [s |-> [s EXCEPT !.buf = @ \o cleanedRaw, !.lastLen = Len(cleanedRaw)],
          logs |-> <<>>]
    ELSE [s |-> s, logs |-> <<>>]

\* as reportChunk, calling onPartial only for a complete document
reportChunkWhenComplete(state, p, c, complete) ==
    [state |-> [state EXCEPT !.toolState[p] =
                    IF complete THEN [c.s EXCEPT !.finalized = TRUE] ELSE c.s],
     partials |-> IF complete
                  THEN <<[pos |-> p, html |-> c.s.buf, complete |-> complete]>>
                  ELSE <<>>,
     logs |-> c.logs \o (IF complete THEN <<LogLine("finalized", p)>> ELSE <<>>)]

\* as reportChunk, the position never marked finalized
reportChunkKeepsOpen(state, p, c, complete) ==
    [state |-> [state EXCEPT !.toolState[p] = c.s],
     partials |-> <<[pos |-> p, html |-> c.s.buf, complete |-> complete]>>,
     logs |-> c.logs]

\* the end of onToolChunk: onPartial(pos, s.buf, complete), then
\* if (complete) s.finalized = true; c is the classified chunk
reportChunk(state, p, c, complete) ==
    [state |-> [state EXCEPT !.toolState[p] =
                    IF complete THEN [c.s EXCEPT !.finalized = TRUE] ELSE c.s],
     partials |-> <<[pos |-> p, html |-> c.s.buf, complete |-> complete]>>,
     logs |-> c.logs \o (IF complete THEN <<LogLine("finalized", p)>> ELSE <<>>)]

\* const complete = /<\/html>\s*$/i.test(s.buf)
completeChunk(state, p, c) == reportChunk(state, p, c, isComplete(c.s.buf))

\* onToolChunk past the finalized test: clean, classify, report, finalize
ingestChunk(state, p, raw) ==
    completeChunk(state, p,
        classify(state.toolState[p], maybeDecodeJsonString(stripFences(raw)), p))

\* as onToolChunk, without the finalized test
onToolChunkNoGuard(state, p, raw) == ingestChunk(upsertPos(state, p), p, raw)

\* function onToolChunk(state, pos, raw, log, onPartial): the state after the
\* call, the onPartial calls made and the lines logged
onToolChunk(state, p, raw) ==
    LET st == upsertPos(state, p)
    IN  IF st.toolState[p].finalized
        THEN [state |-> st, partials |-> <<>>, logs |-> <<LogLine("ignored", p)>>]
        ELSE ingestChunk(st, p, raw)

\* s contains t: RegExp.prototype.test for a literal
contains(s, t) == \E k \in 0..(Len(s) - Len(t)) : SubSeq(s, k + 1, k + Len(t)) = t

\* a || b for optional strings: undefined and "" are falsy
OrElse(a, b) == IF a # Undefined /\ a[1] # <<>> THEN a ELSE b

\* a ?? b for optional values
Coalesce(a, b) == IF a # Undefined THEN a ELSE b

\* String(part.object.tool_name || part.object.name || "").toLowerCase()
toolName(o) ==
    LET n == OrElse(o.tool_name, OrElse(o.name, Some(<<>>)))
    IN  lowerStr(n[1])

\* /insert|add/.test(tool) && /page|slide/.test(tool)
isAdd(tool) ==
    /\ (contains(tool, <<"i", "n", "s", "e", "r", "t">>) \/ contains(tool, <<"a", "d", "d">>))
    /\ (contains(tool, <<"p", "a", "g", "e">>) \/ contains(tool, <<"s", "l", "i", "d", "e">>))

\* a JSON number and a JSON string as field values
NumVal(n) == [num |-> n]
StrVal(s) == [str |-> s]

\* Number(x) for an optional JSON value: undefined is NaN, a number is
\* itself, a string is parsed
toNumber(x) ==
    IF x = Undefined THEN [nan |-> TRUE, n |-> 0]
    ELSE IF "num" \in DOMAIN x[1] THEN [nan |-> FALSE, n |-> x[1].num]
    ELSE Number(x[1].str)

\* r || y for r = Number(x): NaN and 0 are falsy
truthyOr(r, y) == IF ~r.nan /\ r.n # 0 THEN r.n ELSE y

\* Number(x) || y
NumOr(x, y) == truthyOr(toNumber(x), y)

\* position?.[0] : the first element of an optional array
FirstOf(arr) == IF arr # Undefined /\ arr[1] # <<>> THEN Some(arr[1][1]) ELSE Undefined

\* Number(part.object.position?.[0]) || Number(part.object.page_index) || 1
toolPosition(o) == NumOr(FirstOf(o.position), NumOr(o.page_index, 1))

\* part.object.output_delta ?? part.object.delta ?? part.object.output ?? part.object.html ?? ""
toolRaw(o) ==
    Coalesce(o.output_delta, Coalesce(o.delta, Coalesce(o.output, Coalesce(o.html, Some(<<>>)))))[1]

\* r after the onToolChunk call (p, raw) with result c
afterToolChunk(r, p, raw, c) ==
    [state |-> c.state,
     partials |-> r.partials \o c.partials,
     logs |-> r.logs \o c.logs,
     calls |-> Append(r.calls, [pos |-> p, raw |-> raw]),
     threw |-> r.threw]

\* if (typeof raw === "string" && raw) onToolChunk(state, pos, raw, log, onPartial)
toolCall(r, p, raw) ==
    IF raw # <<>> THEN afterToolChunk(r, p, raw, onToolChunk(r.state, p, raw)) ELSE r

\* if (part?.type === "object" && part.object) { ... if (isAdd) { ... } }
objectPart(r, part) ==
    IF part.type = "object" /\ part.object # Undefined /\ isAdd(toolName(part.object[1]))
    THEN toolCall(r, toolPosition(part.object[1]), toolRaw(part.object[1]))
    ELSE r

\* if (part?.type === "text" && typeof part.text === "string") state.assistantBuf += part.text
textPart(r, part) ==
    IF part.type = "text" /\ part.text # Undefined
    THEN [r EXCEPT !.state.assistantBuf = @ \o part.text[1]]
    ELSE r

\* the body of the loop over msg.content for one part; r holds the state,
\* the onPartial calls, the log lines and the onToolChunk calls so far
walkPart(r, part) == textPart(objectPart(r, part), part)

RECURSIVE walkParts(_, _)
walkParts(r, parts) ==
    IF parts = <<>> THEN r ELSE walkParts(walkPart(r, Head(parts)), Tail(parts))

\* for (const msg of asArray(choice.messages ?? choice.message))
RECURSIVE walkMessages(_, _)
walkMessages(r, msgs) ==
    IF msgs = <<>> THEN r
    ELSE walkMessages(
             walkParts([r EXCEPT !.logs = Append(@, LogLine("phase", 0))], Head(msgs).content),
             Tail(msgs))

\* the JSON value null as an element of an array
Null == [null |-> TRUE]
IsNull(x) == "null" \in DOMAIN x

\* for (const choice of asArray(obj.choices)): choice.messages throws a
\* TypeError on a null choice, which ends the walk
RECURSIVE walkChoices(_, _)
walkChoices(r, choices) ==
    IF choices = <<>> THEN r
    ELSE IF IsNull(Head(choices)) THEN [r EXCEPT !.threw = TRUE]
    ELSE walkChoices(walkMessages(r, Head(choices).messages), Tail(choices))

\* if (typeof delta === "string" && delta) state.assistantBuf += delta, not
\* reached when the loops threw
appendDelta(r, delta) ==
    IF r.threw THEN r ELSE [r EXCEPT !.state.assistantBuf = @ \o delta]

\* function walkEvent(state, obj, log, onPartial): the state after the call,
\* the onPartial calls, the lines logged, the onToolChunk calls it made and
\* whether it threw
walkEvent(state, obj) ==
    appendDelta(walkChoices([state |-> state, partials |-> <<>>, logs |-> <<>>,
                             calls |-> <<>>, threw |-> FALSE],
                            obj.choices),
                Coalesce(obj.output_text_delta, Coalesce(obj.delta, Some(<<>>)))[1])

-----------------------------------------------------------------------------
(* extractSlides.ts: finalizeSlides                                        *)

\* the 1-based indices at which t occurs in s
occurrences(s, t) == {k \in 1..(Len(s) - Len(t) + 1) : SubSeq(s, k, k + Len(t) - 1) = t}

Min(S) == CHOOSE x \in S : \A y \in S : x <= y

\* re.exec(s) for /<open>[\s\S]*?<\/html>/i, low being s in lower case: the
\* leftmost match, ending at the first "</html>" past the opening; null
\* (Undefined) without a match
firstSpan(s, low, open) ==
    LET closes == occurrences(low, Str_htmlClose)
        starts == {i \in occurrences(low, open) : \E j \in closes : j >= i + Len(open)}
    IN  IF starts = {} THEN Undefined
        ELSE Some(SubSeq(s, Min(starts),
                         Min({j \in closes : j >= Min(starts) + Len(open)})
                             + Len(Str_htmlClose) - 1))

\* HTML_DOC_RE.exec(s) ?? HTML_TAG_RE.exec(s), on s and its lower case
execDocOrTag(s, low) == Coalesce(firstSpan(s, low, Str_doctype), firstSpan(s, low, Str_htmlOpen))

\* m ? m[0].trim() : null
trimMatch(m) == IF m = Undefined THEN Undefined ELSE Some(trim(m[1]))

cutFirstHtmlDoc(s) == trimMatch(execDocOrTag(s, lowerStr(s)))

DigitChars == <<"0", "1", "2", "3", "4", "5", "6", "7", "8", "9">>

\* String(n) of the template literal, for an integer n
RECURSIVE decimal(_)
decimal(n) ==
    IF n < 0 THEN <<"-">> \o decimal(0 - n)
    ELSE IF n < 10 THEN <<DigitChars[n + 1]>>
    ELSE decimal(n \div 10) \o <<DigitChars[(n % 10) + 1]>>

Str_shellHead ==
    Str_doctype \o <<">">> \o Str_htmlOpen \o <<">", "<", "h", "e", "a", "d", ">",
      "<", "m", "e", "t", "a", SP, "c", "h", "a", "r", "s", "e", "t", "=", QT,
      "u", "t", "f", "-", "8", QT, ">", "<", "t", "i", "t", "l", "e", ">",
      "S", "l", "i", "d", "e", SP>>

Str_shellMid ==
    <<"<", "/", "t", "i", "t", "l", "e", ">", "<", "/", "h", "e", "a", "d", ">",
      "<", "b", "o", "d", "y", ">">>

Str_shellTail == <<"<", "/", "b", "o", "d", "y", ">">> \o Str_htmlClose

\* as shell, the buffer left out of the body element
shellNoBody(pos, buf) == Str_shellHead \o decimal(pos) \o Str_shellMid \o Str_shellTail

\* `<!doctype html><html><head><meta charset="utf-8"><title>Slide ${pos}</title></head><body>${buf}</body></html>`
shell(pos, buf) == Str_shellHead \o decimal(pos) \o Str_shellMid \o buf \o Str_shellTail

\* as docOrShell, the shell put around every buffer
alwaysShell(pos, buf, cut) == shell(pos, buf)

\* cut ?? shell, for the fence-stripped buffer buf and cut = cutFirstHtmlDoc(buf)
docOrShell(pos, buf, cut) == IF cut # Undefined THEN cut[1] ELSE shell(pos, buf)

\* the loop body: one slide for the entry [pos, rawBuf]
slideOfBuf(pos, buf) == [position |-> pos, html |-> docOrShell(pos, buf, cutFirstHtmlDoc(buf))]

\* as keptPositions, keeping every position of the table
allPositions(toolState) == DOMAIN toolState

\* .filter(([, buf]) => buf && buf.trim().length > 0)
keptPositions(toolState) == {p \in DOMAIN toolState : trim(toolState[p].buf) # <<>>}

\* .sort((a, b) => a[0] - b[0]) on the positions
RECURSIVE sortAscending(_)
sortAscending(S) == IF S = {} THEN <<>> ELSE <<Min(S)>> \o sortAscending(S \ {Min(S)})

\* the slides of the tool positions, in the order of the entries
toolSlides(toolState, order) ==
    [k \in 1..Len(order) |-> slideOfBuf(order[k], stripFences(toolState[order[k]].buf))]

\* if (!slides.length) { ... if (html) slides.push({ position: 1, html }) }
assistantSlides(cut) == IF cut # Undefined THEN <<[position |-> 1, html |-> cut[1]]>> ELSE <<>>

\* as orFallback, the assistant text consulted whatever the tool slides
alwaysFallback(slides, assistantBuf) ==
    slides \o assistantSlides(cutFirstHtmlDoc(stripFences(assistantBuf)))

orFallback(slides, assistantBuf) ==
    IF slides = <<>> THEN assistantSlides(cutFirstHtmlDoc(stripFences(assistantBuf)))
    ELSE slides

finalizeSlides(st) ==
    orFallback(toolSlides(st.toolState, sortAscending(keptPositions(st.toolState))),
               st.assistantBuf)

\* finalDeck.map(s => ({ pageNumber: s.position, html: s.html, draft: s.html, complete: true }))
finalSlidesOf(finalDeck) ==
    [k \in 1..Len(finalDeck) |->
        [pageNumber |-> finalDeck[k].position, html |-> finalDeck[k].html,
         draft |-> finalDeck[k].html, complete |-> TRUE]]

-----------------------------------------------------------------------------
(* glm api module: the stream callback and read loop of callGlmAgent.      *)
(* The JSON text of an agent payload is one symbol of the stream ("{A}");  *)
(* Payload gives the object it parses to.                                  *)

Str_DONE == <<"[", "D", "O", "N", "E", "]">>
Str_addSlide == <<"a", "d", "d", "_", "s", "l", "i", "d", "e">>

ToolObject(tool, position, raw) ==
    [tool_name |-> Some(tool), name |-> Undefined, position |-> position,
     page_index |-> Undefined, output_delta |-> Some(raw), delta |-> Undefined,
     output |-> Undefined, html |-> Undefined]

ObjectPart(o) == [type |-> "object", object |-> Some(o), text |-> Undefined]

\* { conversation_id, choices: [{ messages: [{ content: parts }] }] }
AgentPayload(convId, parts) ==
    [choices |-> <<[messages |-> <<[content |-> parts]>>]>>,
     conversation_id |-> convId, output_text_delta |-> Undefined, delta |-> Undefined]

JsonAtoms == {"{A}", "{B}", "{T}", "{C}", "{D}", "{E}", "{H1}", "{H2}"}

\* "<!doctype html><html><body>Hi" and "<!doctype html><html><body>Hi</body></html>"
Raw_hiOpen ==
    Str_doctype \o <<">">> \o Str_htmlOpen
        \o <<">", "<", "b", "o", "d", "y", ">", "H", "i">>
Raw_hiDocument == Raw_hiOpen \o <<"<", "/", "b", "o", "d", "y", ">">> \o Str_htmlClose

Str_c0 == <<"c", "0">>
Str_c1 == <<"c", "1">>
Str_c2 == <<"c", "2">>

\* the objects the JSON symbols stand for: add_slide calls for position 1
\* with the snapshots "AB" and "ABCD"; { "choices": [null] }, on which
\* walkEvent throws; payloads without parts that carry the conversation ids
\* "c1", "c2" and ""; add_slide calls for position 2 with a document in two
\* snapshots
Payload(a) ==
    CASE a = "{T}" ->
           [AgentPayload(Undefined, <<>>) EXCEPT !.choices = <<Null>>]
      [] a = "{C}" -> AgentPayload(Some(Str_c1), <<>>)
      [] a = "{D}" -> AgentPayload(Some(Str_c2), <<>>)
      [] a = "{E}" -> AgentPayload(Some(<<>>), <<>>)
      [] a = "{H1}" ->
           AgentPayload(Undefined,
               <<ObjectPart(ToolObject(Str_addSlide, Some(<<NumVal(2)>>), Raw_hiOpen))>>)
      [] a = "{H2}" ->
           AgentPayload(Undefined,
               <<ObjectPart(ToolObject(Str_addSlide, Some(<<NumVal(2)>>), Raw_hiDocument))>>)
      [] a = "{A}" ->
           AgentPayload(Undefined,
               <<ObjectPart(ToolObject(Str_addSlide, Some(<<NumVal(1)>>), <<"A", "B">>))>>)
      [] a = "{B}" ->
           AgentPayload(Undefined,
               <<ObjectPart(ToolObject(Str_addSlide, Some(<<NumVal(1)>>), <<"A", "B", "C", "D">>))>>)

\* JSON.parse(evt.data): ok is FALSE when it throws.  White space around the
\* value is allowed; anything but one JSON symbol is a syntax error.
jsonParse(data) ==
    LET t == trim(data)
    IN  IF Len(t) = 1 /\ t[1] \in JsonAtoms
        THEN [ok |-> TRUE, obj |-> Payload(t[1])]
        ELSE [ok |-> FALSE]

\* evt.id is truthy
HasId(evt) == evt.id # Undefined /\ evt.id[1] # <<>>

\* if (evt.id) seenEventIds.add(evt.id)
markSeen(c, evt) ==
    IF HasId(evt) THEN [c EXCEPT !.seenEventIds = @ \cup {evt.id[1]}] ELSE c

\* c after walkEvent(extractionState, eventData, logFn, onPartialCallback)
\* ended as w; when it threw, the catch block logs the error
afterWalk(c, evt, w) ==
    [c EXCEPT !.state = w.state,
              !.partials = @ \o w.partials,
              !.logs = @ \o w.logs
                         \o (IF w.threw THEN <<LogLine("parse-error", 0)>> ELSE <<>>),
              !.calls = @ \o w.calls,
              !.walked = Append(@, evt)]

\* as takeConversationId, the last conversation_id winning
takeLastConversationId(c, conv) ==
    IF conv # Undefined /\ conv[1] # <<>>
    THEN [c EXCEPT !.finalConvId = conv[1]]
    ELSE c

\* if (eventData.conversation_id && !finalConvId) finalConvId = eventData.conversation_id
takeConversationId(c, conv) ==
    IF conv # Undefined /\ conv[1] # <<>> /\ c.finalConvId = <<>>
    THEN [c EXCEPT !.finalConvId = conv[1]]
    ELSE c

\* as handleParsed, an event that is no JSON ending the read loop
handleParsedOrStop(c, evt, j) ==
    IF ~j.ok
    THEN [c EXCEPT !.logs = Append(@, LogLine("parse-error", 0)), !.shouldBreakLoop = TRUE]
    ELSE afterWalk(takeConversationId(c, j.obj.conversation_id), evt,
                   walkEvent(c.state, j.obj))

\* the try block past JSON.parse, for the parse result j
handleParsed(c, evt, j) ==
    IF ~j.ok
    THEN [c EXCEPT !.logs = Append(@, LogLine("parse-error", 0))]
    ELSE afterWalk(takeConversationId(c, j.obj.conversation_id), evt,
                   walkEvent(c.state, j.obj))

\* the callback past the duplicate test: the [DONE] marker, JSON.parse,
\* conversation id, walkEvent; an exception is logged
handleEvent(c, evt) ==
    IF trim(evt.data) = Str_DONE
    THEN [c EXCEPT !.logs = Append(@, LogLine("done-marker", 0)), !.shouldBreakLoop = TRUE]
    ELSE handleParsed(c, evt, jsonParse(evt.data))

\* as onSseEvent, without the duplicate test
onSseEventNoDedup(c, evt) == handleEvent(markSeen(c, evt), evt)

\* the callback given to createSSEParser: c holds what it reads and writes
\* (walked: the events it passed to walkEvent)
onSseEvent(c, evt) ==
    IF HasId(evt) /\ evt.id[1] \in c.seenEventIds
    THEN c
    ELSE handleEvent(markSeen(c, evt), evt)

\* the callback on the events of one feed call, in order
RECURSIVE onSseEvents(_, _)
onSseEvents(c, evts) ==
    IF evts = <<>> THEN c ELSE onSseEvents(onSseEvent(c, Head(evts)), Tail(evts))

-----------------------------------------------------------------------------
(* The stream fed to the framer.  A stream is written as lines; a line is  *)
(* a field name, a separator (none, a colon, a colon and a space) and a    *)
(* value.  The blank line has an empty name, no separator, no value.       *)

\* input: the lines of the stream; text: the characters they are sent as;
\* pos: how many characters were fed; parser: the framer's closure state;
\* events: the onEvent calls so far; flushed: feed was called with flush;
\* bytewise: every feed call so far held exactly one character
VARIABLES input, text, pos, parser, events, flushed, bytewise

sseVars == <<input, text, pos, parser, events, flushed, bytewise>>

\* state: the StreamExtractionState; calls: the (pos, raw) arguments of the
\* onToolChunk calls so far; partials: the onPartial calls so far; logs: the
\* lines logged so far
VARIABLES state, calls, partials, logs

exVars == <<state, calls, partials, logs>>

\* pc: where callGlmAgent is ("idle", "reading" at await reader.read(),
\* "finished" past the final flush); seenEventIds, shouldBreakLoop,
\* finalConvId: its locals; walked: the events passed to walkEvent
VARIABLES pc, seenEventIds, shouldBreakLoop, finalConvId, walked

glmVars == <<pc, seenEventIds, shouldBreakLoop, finalConvId, walked>>

GlmIdle ==
    /\ pc = "idle"
    /\ seenEventIds = {}
    /\ shouldBreakLoop = FALSE
    /\ finalConvId = <<>>
    /\ walked = <<>>

\* fpc: where debugFetch is ("idle", "called", "backoff" at the awaited
\* setTimeout, "fetching" at the awaited fetch, "returned", "thrown");
\* retries, attempt, lastError: its option and locals; result: the response
\* it returned or the error it threw; trace: its waits, fetch calls and
\* their outcomes, in order; aborted: init.signal.aborted;
\* onCompleteCalls, onErrorCalls: the arguments of the callbacks' calls
VARIABLES fpc, retries, attempt, lastError, result, trace, aborted,
          onCompleteCalls, onErrorCalls, reader

fetchVars == <<fpc, retries, attempt, lastError, result, trace>>

\* params: the GlmApiParams of the call (its conversationId); body: the
\* request body callGlmAgent built, none before the call
VARIABLES params, body

reqVars == <<params, body>>

\* abortControllerRef: abortControllerRef.current, 0 for null or the number
\* of a controller; controllers: the AbortControllers made so far;
\* requests: what each handler call started; appState: the component state
\* (null is Undefined there)
VARIABLES abortControllerRef, controllers, requests, appState

appVars == <<abortControllerRef, controllers, requests, appState>>

callerVars == <<reqVars, appVars>>

netVars == <<fetchVars, aborted, onCompleteCalls, onErrorCalls, reader, callerVars>>

\* const reader = response.body.getReader(): there is none before the
\* response, and it is open when the read loop starts
readerAt(p) == IF p = "reading" THEN "open" ELSE "none"

\* no handler of the component has run
AppIdle ==
    /\ abortControllerRef = 0
    /\ controllers = <<>>
    /\ requests = <<>>
    /\ appState = [isLoading |-> FALSE, error |-> Undefined, glmConversationId |-> Undefined]

\* no call is described
CallerIdle ==
    /\ params = [conversationId |-> Undefined]
    /\ body = Undefined
    /\ AppIdle

NetIdle ==
    /\ CallerIdle
    /\ fpc = "idle"
    /\ retries = 0
    /\ attempt = 0
    /\ lastError = Undefined
    /\ result = Undefined
    /\ trace = <<>>
    /\ aborted = FALSE
    /\ onCompleteCalls = <<>>
    /\ onErrorCalls = <<>>
    /\ reader = readerAt(pc)

ExIdle ==
    /\ state = createExtractionState
    /\ calls = <<>>
    /\ partials = <<>>
    /\ logs = <<>>

NONE == "none"
COLON == "colon"
COLONSP == "colonsp"

Line(field, sep, val) == [field |-> field, sep |-> sep, val |-> val]

BlankLine == Line(<<>>, NONE, <<>>)

SepStr(sep) ==
    CASE sep = COLON -> <<":">>
      [] sep = COLONSP -> <<":", SP>>
      [] OTHER -> <<>>

RenderLine(l) == l.field \o SepStr(l.sep) \o l.val

Eol(crlf) == IF crlf THEN <<CR, LF>> ELSE <<LF>>

RECURSIVE RenderLines(_, _)
RenderLines(ls, crlf) ==
    IF ls = <<>> THEN <<>>
    ELSE RenderLine(Head(ls)) \o Eol(crlf) \o RenderLines(Tail(ls), crlf)

\* the lines the bounded streams are built from
InputLines ==
    { Line(F_data, COLONSP, <<"a">>),
      Line(F_data, COLON, <<"b">>),
      Line(F_data, COLON, <<>>),
      Line(F_id, COLONSP, <<"1">>),
      Line(F_id, COLON, <<>>),
      Line(F_event, COLONSP, <<"x">>),
      Line(F_retry, COLONSP, <<"5">>),
      Line(F_retry, COLONSP, <<"0">>),
      Line(F_retry, COLON, <<"x">>),
      BlankLine }

MaxLines == 3

SeqsUpTo(S, n) == UNION {[1..k -> S] : k \in 0..n}

\* "id: 1\ndata: foo\ndata: bar\n\n"
ExampleRoundTrip ==
    << Line(F_id, COLONSP, <<"1">>),
       Line(F_data, COLONSP, <<"f", "o", "o">>),
       Line(F_data, COLONSP, <<"b", "a", "r">>),
       BlankLine >>

\* "data: partial" (the stream ends before the line does)
ExamplePartial == << Line(F_data, COLONSP, <<"p", "a", "r", "t", "i", "a", "l">>) >>

\* a comment line, a field without a colon, an unknown field, a value that
\* starts with two spaces, a negative retry
ExampleOddLines ==
    << Line(<<>>, COLON, <<"c">>),
       Line(F_data, NONE, <<>>),
       Line(<<"f">>, COLONSP, <<"1">>),
       Line(F_retry, COLONSP, <<SP, "7">>),
       Line(F_data, COLONSP, <<SP, "a">>),
       BlankLine,
       Line(F_retry, COLON, <<"-", "5">>),
       BlankLine >>

\* an event name in a dropped block, then a block with data
ExampleLeak ==
    << Line(F_event, COLONSP, <<"x">>),
       Line(F_id, COLON, <<>>),
       BlankLine,
       Line(F_data, COLONSP, <<"a">>),
       BlankLine >>

\* a positive, a non-numeric and a zero retry, each in a dispatched block
ExampleRetry ==
    << Line(F_retry, COLONSP, <<"5">>),
       BlankLine,
       Line(F_retry, COLON, <<"x">>),
       Line(F_data, COLONSP, <<"a">>),
       BlankLine,
       Line(F_retry, COLONSP, <<"0">>),
       Line(F_id, COLONSP, <<"1">>),
       BlankLine >>

ExampleInputs ==
    {ExampleRoundTrip, ExamplePartial, ExampleOddLines, ExampleLeak, ExampleRetry}

SseInputs == SeqsUpTo(InputLines, MaxLines) \cup ExampleInputs

SseInit ==
    /\ input \in SseInputs
    /\ \E crlf \in BOOLEAN : text = RenderLines(input, crlf)
    /\ pos = 0
    /\ parser = createSSEParser
    /\ events = <<>>
    /\ flushed = FALSE
    /\ bytewise = TRUE
    /\ ExIdle
    /\ GlmIdle
    /\ NetIdle

\* the sizes of the next chunk: one character, or all that is left
ChunkSizes == {n \in {1, Len(text) - pos} : n >= 1 /\ pos + n <= Len(text)}

\* parse(chunk) with a callback that records the event
SseFeed ==
    /\ ~flushed
    /\ \E n \in ChunkSizes :
         LET p == feed(parser, SubSeq(text, pos + 1, pos + n), FALSE)
         IN  /\ parser' = [p EXCEPT !.out = <<>>]
             /\ events' = events \o p.out
             /\ pos' = pos + n
             /\ bytewise' = (bytewise /\ n = 1)
    /\ UNCHANGED <<input, text, flushed>>
    /\ UNCHANGED <<exVars, glmVars, netVars>>

\* parse("", { flush: true }): the stream ended after pos characters
SseFlush ==
    /\ ~flushed
    /\ LET p == feed(parser, <<>>, TRUE)
       IN  /\ parser' = [p EXCEPT !.out = <<>>]
           /\ events' = events \o p.out
    /\ flushed' = TRUE
    /\ UNCHANGED <<input, text, pos, bytewise>>
    /\ UNCHANGED <<exVars, glmVars, netVars>>

-----------------------------------------------------------------------------
(* Chunk ingestion driven directly: one onToolChunk call per step.         *)

\* "<html>A"
Raw_htmlA == <<"<", "h", "t", "m", "l", ">", "A">>

\* "<html>AB"
Raw_htmlAB == <<"<", "h", "t", "m", "l", ">", "A", "B">>

\* "<html>ABCD"
Raw_htmlABCD == <<"<", "h", "t", "m", "l", ">", "A", "B", "C", "D">>

\* "<!doctype html><html>B"
Raw_doctypeB == <<"<", "!", "d", "o", "c", "t", "y", "p", "e", SP, "h", "t", "m", "l", ">", "<", "h", "t", "m", "l", ">", "B">>

\* "AB"
Raw_AB == <<"A", "B">>

\* "ABCD"
Raw_ABCD == <<"A", "B", "C", "D">>

\* "</html>"
Raw_close == <<"<", "/", "h", "t", "m", "l", ">">>

\* "ABCD</html>"
Raw_ABCDclosed == <<"A", "B", "C", "D", "<", "/", "h", "t", "m", "l", ">">>

\* "<html": a document start cut before the tag ends
Raw_htmlTruncated == <<"<", "h", "t", "m", "l">>

\* a fenced "<html>A"
Raw_fenced == <<BT, BT, BT, "h", "t", "m", "l", LF, "<", "h", "t", "m", "l", ">", "A", LF, BT, BT, BT>>

\* "A\\nB" in source notation: A, backslash, n, B
Raw_escaped == <<"A", BSL, "n", "B">>

\* "<HTML>A</HTML> "
Raw_upperClosed == <<"<", "H", "T", "M", "L", ">", "A", "<", "/", "H", "T", "M", "L", ">", SP>>

RawChunks ==
    { Raw_htmlA,
      Raw_htmlAB,
      Raw_htmlABCD,
      Raw_doctypeB,
      Raw_AB,
      Raw_ABCD,
      Raw_close,
      Raw_ABCDclosed,
      Raw_htmlTruncated,
      Raw_fenced,
      Raw_escaped,
      Raw_upperClosed }

Positions == {1, 2}

MaxCalls == 3

SseIdle ==
    /\ input = <<>>
    /\ text = <<>>
    /\ pos = 0
    /\ parser = createSSEParser
    /\ events = <<>>
    /\ flushed = FALSE
    /\ bytewise = TRUE

\* the assistant text walkEvent gathered before the first tool chunk
AssistantTexts == {<<>>, <<"t">>}

IngestInit ==
    /\ \E b \in AssistantTexts : state = [createExtractionState EXCEPT !.assistantBuf = b]
    /\ calls = <<>>
    /\ partials = <<>>
    /\ logs = <<>>
    /\ SseIdle
    /\ GlmIdle
    /\ NetIdle

\* onToolChunk(state, p, raw, log, onPartial), as walkEvent calls it: raw is
\* a non-empty string
ToolChunk ==
    /\ Len(calls) < MaxCalls
    /\ \E p \in Positions, raw \in RawChunks :
         LET r == onToolChunk(state, p, raw)
         IN  /\ state' = r.state
             /\ calls' = Append(calls, [pos |-> p, raw |-> raw])
             /\ partials' = partials \o r.partials
             /\ logs' = logs \o r.logs
    /\ UNCHANGED <<sseVars, glmVars, netVars>>

IngestNext == ToolChunk

vars == <<sseVars, exVars, glmVars, netVars>>

SseNext == SseFeed \/ SseFlush

SpecSSE == SseInit /\ [][SseNext]_vars

SpecIngest == IngestInit /\ [][IngestNext]_vars

-----------------------------------------------------------------------------
(* walkEvent driven directly: one decoded payload per step.                *)

\* the position fields of a tool call: absent, an empty array, numbers and
\* strings that parse or do not
WalkPositions ==
    {Undefined, Some(<<>>), Some(<<NumVal(0)>>), Some(<<NumVal(2)>>),
     Some(<<StrVal(<<"3">>)>>), Some(<<StrVal(<<"x">>)>>)}

WalkPageIndexes ==
    {Undefined, Some(NumVal(0)), Some(NumVal(5)), Some(StrVal(<<"4">>)), Some(StrVal(<<"x">>))}

\* one add_slide call with the chunk "AB"
WalkObject(position, pageIndex) ==
    AgentPayload(Undefined,
        <<ObjectPart([ToolObject(Str_addSlide, position, Raw_AB)
                         EXCEPT !.page_index = pageIndex])>>)

Str_pageAdd == <<"p", "a", "g", "e", "_", "a", "d", "d">>
Str_insertPage == <<"I", "n", "s", "e", "r", "t", "P", "a", "g", "e">>
Str_getText == <<"g", "e", "t", "_", "t", "e", "x", "t">>

\* the tool names of the calls for position 2: "page_add", "InsertPage",
\* "get_text"
WalkTools == {Str_pageAdd, Str_insertPage, Str_getText}

\* one call of the tool for position 2 with the chunk "AB"
WalkToolObject(tool) ==
    AgentPayload(Undefined, <<ObjectPart(ToolObject(tool, Some(<<NumVal(2)>>), Raw_AB))>>)

WalkObjects ==
    {WalkObject(ps, pi) : ps \in WalkPositions, pi \in WalkPageIndexes}
        \cup {WalkToolObject(tool) : tool \in WalkTools}

MaxWalks == 2

WalkInit == ExIdle /\ SseIdle /\ GlmIdle /\ NetIdle

\* walkEvent(state, obj, log, onPartial); walked holds the payloads given
WalkOne ==
    /\ Len(walked) < MaxWalks
    /\ \E obj \in WalkObjects :
         \E w \in {walkEvent(state, obj)} :
           /\ state' = w.state
           /\ calls' = calls \o w.calls
           /\ partials' = partials \o w.partials
           /\ logs' = logs \o w.logs
           /\ walked' = Append(walked, obj)
    /\ UNCHANGED <<sseVars, pc, seenEventIds, shouldBreakLoop, finalConvId, netVars>>

WalkNext == WalkOne

SpecWalk == WalkInit /\ [][WalkNext]_vars

-----------------------------------------------------------------------------
(* debugFetch: fetch with tracing and retries.                             *)

\* an exception: its name and what raised it
Err(name, message) == [name |-> name, message |-> message]

\* what debugFetch ends with
Returned(status) == [kind |-> "response", status |-> status]
Thrown(err) == [kind |-> "throw", err |-> err]

\* an entry of the trace: a wait of arg ms, a fetch call, a response with
\* status arg, a rejection by the exception arg
Entry(op, n, arg) == [op |-> op, attempt |-> n, arg |-> arg]

\* res.ok
ok(status) == status >= 200 /\ status <= 299

\* as delay, the same wait before every retry
delayFlat(n) == 1000

\* const delay = 1000 * (attempt - 1)
delay(n) == 1000 * (n - 1)

\* the statuses and exceptions a fetch can end with
Statuses == {200, 404, 500, 503}
Rejections == {"TypeError", "Error"}

MaxRetries == 3

\* throw lastError || new Error(`${label} request failed after ${retries} attempts.`)
throwLast(tr) ==
    /\ result' = Some(Thrown(IF lastError # Undefined THEN lastError[1]
                              ELSE Err("Error", "exhausted")))
    /\ fpc' = "thrown"
    /\ trace' = tr
    /\ UNCHANGED attempt

\* the fetch of attempt n is called
callFetch(n, tr) ==
    /\ trace' = Append(tr, Entry("fetch", n, 0))
    /\ fpc' = "fetching"

\* the top of the loop up to the first await, from the trace tr: leave the
\* loop, or attempt++ and wait (attempt > 1) or fetch
loopTop(tr) ==
    IF attempt < retries
    THEN /\ attempt' = attempt + 1
         /\ result' = result
         /\ IF attempt + 1 > 1
            THEN /\ trace' = Append(tr, Entry("wait", attempt + 1, delay(attempt + 1)))
                 /\ fpc' = "backoff"
            ELSE callFetch(attempt + 1, tr)
    ELSE throwLast(tr)

\* if (!res.ok && res.status >= 500 && attempt < retries)
retryResponse(status) == ~ok(status) /\ status >= 500 /\ attempt < retries

\* as retryError, retrying every exception
retryAnyError(name) == attempt < retries

\* if (isNetworkError && attempt < retries)
retryError(name) == name = "TypeError" /\ attempt < retries

FetchInit ==
    /\ ExIdle /\ SseIdle /\ GlmIdle /\ CallerIdle
    /\ fpc = "called"
    /\ retries \in 0..MaxRetries
    /\ attempt = 0
    /\ lastError = Undefined
    /\ result = Undefined
    /\ trace = <<>>
    /\ aborted \in BOOLEAN
    /\ onCompleteCalls = <<>>
    /\ onErrorCalls = <<>>
    /\ reader = readerAt(pc)

MSG_ABORTED == "Request aborted by client."
MSG_NETWORK == "A network error occurred after multiple retries."

\* as errorMessage, without the test for an abort
errorMessagePlain(err) ==
    IF err.name = "TypeError" THEN MSG_NETWORK
    ELSE err.message

\* the message the catch block of callGlmAgent gives to onError
errorMessage(err) ==
    IF err.name = "AbortError" THEN MSG_ABORTED
    ELSE IF err.name = "TypeError" THEN MSG_NETWORK
    ELSE err.message

\* } catch (error) { ... if (onError) onError(message) }
catch(err) ==
    /\ onErrorCalls' = Append(onErrorCalls, errorMessage(err))
    /\ pc' = "failed"

\* callGlmAgent past await debugFetch(...) when it is the caller (pc =
\* "fetching"): the response is read as a stream when it is ok, its text is
\* awaited for the error when it is not; an exception goes to the catch
afterDebugFetch ==
    IF pc = "fetching" /\ fpc' = "returned"
    THEN /\ pc' = IF ok(result'[1].status) THEN "reading" ELSE "error-body"
         /\ reader' = readerAt(pc')
         /\ UNCHANGED onErrorCalls
    ELSE IF pc = "fetching" /\ fpc' = "thrown"
    THEN catch(result'[1].err) /\ UNCHANGED reader
    ELSE UNCHANGED <<pc, onErrorCalls, reader>>

FetchFrame ==
    /\ afterDebugFetch
    /\ UNCHANGED <<sseVars, exVars, seenEventIds, shouldBreakLoop, finalConvId, walked,
                   retries, onCompleteCalls>>

\* debugFetch(input, init, onLog, opts) up to its first await
DebugFetchCall ==
    /\ fpc = "called"
    /\ loopTop(trace)
    /\ UNCHANGED <<lastError, aborted, callerVars>>
    /\ FetchFrame

\* await new Promise(r => setTimeout(r, delay)) ends: fetch is called
BackoffElapsed ==
    /\ fpc = "backoff"
    /\ callFetch(attempt, trace)
    /\ UNCHANGED <<attempt, lastError, result, aborted, callerVars>>
    /\ FetchFrame

\* await fetch(input, init) gives a response: retried, or returned
FetchResolves ==
    /\ fpc = "fetching"
    /\ ~aborted
    /\ \E status \in Statuses :
         IF retryResponse(status)
         THEN /\ lastError' = Some(Err("Error", "server-error"))
              /\ loopTop(Append(trace, Entry("response", attempt, status)))
         ELSE /\ trace' = Append(trace, Entry("response", attempt, status))
              /\ result' = Some(Returned(status))
              /\ fpc' = "returned"
              /\ UNCHANGED <<attempt, lastError>>
    /\ UNCHANGED <<aborted, callerVars>>
    /\ FetchFrame

\* await fetch(input, init) throws: an AbortError when the signal is
\* aborted, a network error (TypeError) or another exception otherwise
FetchRejects ==
    /\ fpc = "fetching"
    /\ \E name \in (IF aborted THEN {"AbortError"} ELSE Rejections) :
         /\ lastError' = Some(Err(name, "rejected"))
         /\ IF retryError(name)
            THEN loopTop(Append(trace, Entry("reject", attempt, name)))
            ELSE /\ trace' = Append(trace, Entry("reject", attempt, name))
                 /\ result' = Some(Thrown(Err(name, "rejected")))
                 /\ fpc' = "thrown"
                 /\ UNCHANGED attempt
    /\ UNCHANGED <<aborted, callerVars>>
    /\ FetchFrame

\* controller.abort() while debugFetch or callGlmAgent awaits: the body
\* stream of a response of the aborted fetch is errored
AbortFetch ==
    /\ fpc \in {"backoff", "fetching"} \/ pc \in {"reading", "error-body"}
    /\ ~aborted
    /\ aborted' = TRUE
    /\ reader' = IF reader = "open" THEN "errored" ELSE reader
    /\ UNCHANGED <<fetchVars, onCompleteCalls, onErrorCalls, sseVars, exVars, glmVars,
                   callerVars>>

FetchNext == DebugFetchCall \/ BackoffElapsed \/ FetchResolves \/ FetchRejects \/ AbortFetch

SpecFetch == FetchInit /\ [][FetchNext]_vars

-----------------------------------------------------------------------------
(* callGlmAgent from the first reader.read() on: the response is a stream  *)
(* of event blocks, read in chunks.                                        *)

EventBlock(id, data) ==
    (IF id = Undefined THEN <<>> ELSE <<Line(F_id, COLONSP, id[1])>>)
        \o <<Line(F_data, COLONSP, data), BlankLine>>

StreamIds == {Undefined, Some(<<"1">>), Some(<<"2">>)}

\* two payloads, the end marker, a text that is no JSON, and a payload on
\* which walkEvent throws
StreamData == {<<"{A}">>, <<"{B}">>, Str_DONE, <<"x">>, <<"{T}">>}

StreamBlocks == {EventBlock(id, data) : id \in StreamIds, data \in StreamData}

MaxEvents == 2

RECURSIVE Flatten(_)
Flatten(ss) == IF ss = <<>> THEN <<>> ELSE Head(ss) \o Flatten(Tail(ss))

StreamInputs == {Flatten(bs) : bs \in SeqsUpTo(StreamBlocks, MaxEvents)}

\* const extractionState = createExtractionState(); const seenEventIds = new Set();
\* let shouldBreakLoop = false; const parse = createSSEParser(...)
StreamInit ==
    /\ input \in StreamInputs
    /\ text = RenderLines(input, FALSE)
    /\ pos = 0
    /\ parser = createSSEParser
    /\ events = <<>>
    /\ flushed = FALSE
    /\ bytewise = TRUE
    /\ ExIdle
    /\ pc = "reading"
    /\ seenEventIds = {}
    /\ shouldBreakLoop = FALSE
    /\ finalConvId = <<>>
    /\ walked = <<>>
    /\ NetIdle

\* what the callback reads and writes
Ctx ==
    [seenEventIds |-> seenEventIds, shouldBreakLoop |-> shouldBreakLoop,
     finalConvId |-> finalConvId, state |-> state, partials |-> partials,
     logs |-> logs, calls |-> calls, walked |-> walked]

SetCtx(c) ==
    /\ seenEventIds' = c.seenEventIds
    /\ shouldBreakLoop' = c.shouldBreakLoop
    /\ finalConvId' = c.finalConvId
    /\ state' = c.state
    /\ partials' = c.partials
    /\ logs' = c.logs
    /\ calls' = c.calls
    /\ walked' = c.walked

\* the ways a call of the caller's onComplete can end
CallbackOutcomes == {"returns", "throws"}

\* onComplete(finalConvId, finalSlides) inside the try block: the call is
\* recorded with its arguments and its outcome; when it throws, the catch
\* block runs
onComplete(convId, slides) ==
    \E outcome \in CallbackOutcomes :
        /\ onCompleteCalls' =
               Append(onCompleteCalls,
                      [convId |-> convId, slides |-> slides, outcome |-> outcome])
        /\ IF outcome = "throws"
           THEN catch(Err("Error", "thrown by onComplete"))
           ELSE /\ pc' = "finished"
                /\ UNCHANGED onErrorCalls

\* as complete, an empty deck reported as an error
completeUnlessEmpty(convId, finalDeck) ==
    IF finalDeck = <<>>
    THEN catch(Err("Error", "no slides")) /\ UNCHANGED onCompleteCalls
    ELSE onComplete(convId, finalSlidesOf(finalDeck))

\* if (onComplete) { const finalDeck = finalizeSlides(extractionState);
\* const finalSlides = finalDeck.map(...); onComplete(finalConvId, finalSlides) }
complete(convId, finalDeck) == onComplete(convId, finalSlidesOf(finalDeck))

\* parse("", { flush: true }) after the loop, from parser p and context c,
\* then the completion
FinalFlush(p, c, framed) ==
    \E f \in {feed(p, <<>>, TRUE)} :
      \E c2 \in {onSseEvents(c, f.out)} :
        /\ parser' = [f EXCEPT !.out = <<>>]
        /\ events' = framed \o f.out
        /\ SetCtx(c2)
        /\ flushed' = TRUE
        /\ complete(c2.finalConvId, finalizeSlides(c2.state))

\* reader.read() gives a chunk: parse(chunk); after [DONE] the loop is left
\* and the framer flushed
StreamRead ==
    /\ pc = "reading"
    /\ ~aborted
    /\ \E n \in ChunkSizes :
         \E p \in {feed(parser, SubSeq(text, pos + 1, pos + n), FALSE)} :
           \E c \in {onSseEvents(Ctx, p.out)} :
             /\ pos' = pos + n
             /\ bytewise' = (bytewise /\ n = 1)
             /\ IF c.shouldBreakLoop
                THEN FinalFlush(p, c, events \o p.out)
                ELSE /\ parser' = [p EXCEPT !.out = <<>>]
                     /\ events' = events \o p.out
                     /\ SetCtx(c)
                     /\ UNCHANGED <<flushed, pc, onCompleteCalls, onErrorCalls>>
    /\ UNCHANGED <<input, text, fetchVars, aborted, callerVars, reader>>

\* reader.read() gives done (the server closed the stream after pos
\* characters): the loop is left and the framer flushed
StreamClose ==
    /\ pc = "reading"
    /\ ~aborted
    /\ \E c \in {Ctx} : FinalFlush(parser, c, events)
    /\ reader' = "closed"
    /\ UNCHANGED <<input, text, pos, bytewise, fetchVars, aborted, callerVars>>

StreamNext == StreamRead \/ StreamClose

SpecStream == StreamInit /\ [][StreamNext]_vars

-----------------------------------------------------------------------------
(* callGlmAgent as a whole: the request, the stream, the callbacks.        *)

\* two tool-call events for position 2, then the end marker
ScenarioStream ==
    EventBlock(Undefined, <<"{H1}">>) \o EventBlock(Undefined, <<"{H2}">>)
        \o EventBlock(Undefined, Str_DONE)

\* the response streams of a whole call: two payloads and the end marker,
\* the two-chunk scenario, three payloads with the conversation ids "",
\* "c1" and "c2", a payload cut off by the server, an empty stream
CallInputs ==
    {EventBlock(Some(<<"1">>), <<"{A}">>) \o EventBlock(Some(<<"2">>), <<"{B}">>)
        \o EventBlock(Undefined, Str_DONE),
     ScenarioStream,
     EventBlock(Undefined, <<"{E}">>) \o EventBlock(Undefined, <<"{C}">>)
        \o EventBlock(Undefined, <<"{D}">>),
     <<Line(F_data, COLONSP, <<"{A}">>)>>,
     <<>>}

\* retries: 3 in the options callGlmAgent gives debugFetch
AgentRetries == 3

\* the strings given as params.conversationId: '' or the id "c0"
ConversationIds == {<<>>, Str_c0}

\* if (conversationId): undefined and '' are falsy
truthy(conversationId) == conversationId # Undefined /\ conversationId[1] # <<>>

\* const body = {agent_id, stream, messages};
\* if (conversationId) body.conversation_id = conversationId
requestBody(p) ==
    [agent_id |-> "slides_glm_agent", stream |-> TRUE,
     conversation_id |-> IF truthy(p.conversationId) THEN p.conversationId ELSE Undefined]

\* let finalConvId = conversationId || ''
orEmpty(conversationId) == IF truthy(conversationId) THEN conversationId[1] ELSE <<>>

\* callGlmAgent(params) at its call of debugFetch
CallInit ==
    /\ params \in {[conversationId |-> c] : c \in {Undefined} \cup {Some(id) : id \in ConversationIds}}
    /\ body = Some(requestBody(params))
    /\ AppIdle
    /\ input \in CallInputs
    /\ text = RenderLines(input, FALSE)
    /\ pos = 0
    /\ parser = createSSEParser
    /\ events = <<>>
    /\ flushed = FALSE
    /\ bytewise = TRUE
    /\ ExIdle
    /\ pc = "fetching"
    /\ seenEventIds = {}
    /\ shouldBreakLoop = FALSE
    /\ finalConvId = orEmpty(params.conversationId)
    /\ walked = <<>>
    /\ fpc = "called"
    /\ retries = AgentRetries
    /\ attempt = 0
    /\ lastError = Undefined
    /\ result = Undefined
    /\ trace = <<>>
    /\ aborted = FALSE
    /\ onCompleteCalls = <<>>
    /\ onErrorCalls = <<>>
    /\ reader = readerAt(pc)

\* await reader.read() throws: an AbortError when the signal is aborted, a
\* network error otherwise
ReadRejects ==
    /\ pc = "reading"
    /\ catch(Err(IF aborted THEN "AbortError" ELSE "TypeError", "rejected"))
    /\ reader' = "errored"
    /\ UNCHANGED <<sseVars, exVars, seenEventIds, shouldBreakLoop, finalConvId, walked,
                   fetchVars, aborted, callerVars, onCompleteCalls>>

\* await response.text() for a response that is not ok ends: the error
\* `API request failed: ...` is thrown, or an AbortError after an abort
ErrorBodyRead ==
    /\ pc = "error-body"
    /\ catch(IF aborted THEN Err("AbortError", "rejected") ELSE Err("Error", "API request failed"))
    /\ UNCHANGED <<reader, sseVars, exVars, seenEventIds, shouldBreakLoop, finalConvId, walked,
                   fetchVars, aborted, callerVars, onCompleteCalls>>

CallNext ==
    \/ DebugFetchCall \/ BackoffElapsed \/ FetchResolves \/ FetchRejects \/ AbortFetch
    \/ StreamRead \/ StreamClose \/ ReadRejects \/ ErrorBodyRead

SpecCall == CallInit /\ [][CallNext]_vars

-----------------------------------------------------------------------------
(* updatePage: the guarded entry to callGlmAgent.                          *)

errMsg == "conversationId is required for updatePage"

\* the conversationId of the params given to updatePage: none, '' or "c0"
UpdateParams ==
    {[conversationId |-> c] : c \in {Undefined} \cup {Some(id) : id \in ConversationIds}}

\* before the call of updatePage(params): nothing was built, fetched or
\* called back
UpdateInit ==
    /\ input \in CallInputs
    /\ text = RenderLines(input, FALSE)
    /\ pos = 0
    /\ parser = createSSEParser
    /\ events = <<>>
    /\ flushed = FALSE
    /\ bytewise = TRUE
    /\ ExIdle /\ GlmIdle
    /\ params \in UpdateParams
    /\ body = Undefined
    /\ AppIdle
    /\ fpc = "idle"
    /\ retries = 0
    /\ attempt = 0
    /\ lastError = Undefined
    /\ result = Undefined
    /\ trace = <<>>
    /\ aborted = FALSE
    /\ onCompleteCalls = <<>>
    /\ onErrorCalls = <<>>
    /\ reader = readerAt(pc)

\* callGlmAgent(p) up to its call of debugFetch: the body is built and
\* debugFetch called with retries: 3
callGlmAgent(p) ==
    /\ body' = Some(requestBody(p))
    /\ finalConvId' = orEmpty(p.conversationId)
    /\ pc' = "fetching"
    /\ fpc' = "called"
    /\ retries' = AgentRetries
    /\ UNCHANGED onErrorCalls

\* as updatePage, without the test of params.conversationId
updatePageNoGuard(p) == callGlmAgent(p)

\* if (!params.conversationId) { if (params.onError) params.onError(errMsg);
\* return; } return callGlmAgent(params)
updatePage(p) ==
    IF ~truthy(p.conversationId)
    THEN /\ onErrorCalls' = Append(onErrorCalls, errMsg)
         /\ pc' = "returned"
         /\ UNCHANGED <<body, finalConvId, fpc, retries>>
    ELSE callGlmAgent(p)

UpdatePage ==
    /\ pc = "idle"
    /\ updatePage(params)
    /\ UNCHANGED <<sseVars, exVars, seenEventIds, shouldBreakLoop, walked, attempt,
                   lastError, result, trace, aborted, onCompleteCalls, reader,
                   params, appVars>>

UpdateNext == UpdatePage \/ CallNext

SpecUpdate == UpdateInit /\ [][UpdateNext]_vars

-----------------------------------------------------------------------------
(* The component's handlers: handleGenerate, handleUpdateSlide and         *)
(* handleCancelGeneration, the timeouts they set and the callbacks they    *)
(* give to addPage and updatePage. A request is the call one handler       *)
(* started: it is "retrieving" while retrieveGroundTruth is awaited,       *)
(* "inflight" from the call of addPage or updatePage to the terminal       *)
(* callback, and "done" after it.                                          *)

MaxRequests == 3

MSG_GENERATE_TIMEOUT == "Generation timed out. The server may be busy. Please try again."
MSG_UPDATE_TIMEOUT == "Slide update timed out. Please try again."
MSG_NO_SLIDES == "Generation finished, but the AI did not produce any slides."
MSG_NO_UPDATE == "Update finished, but the AI did not produce a new slide."
MSG_MISSING_ID == "Cannot update slide. Missing GLM Conversation ID."
MSG_RETRIEVE == "Failed to retrieve context from document via n8n"
MSG_API == "API request failed"

\* the conversation ids onComplete is called with: '' or "c1"
CompletedIds == {<<>>, Str_c1}

\* the messages callGlmAgent gives onError for the controller state
ErrorsFor(ctl) == IF ctl.aborted THEN {MSG_ABORTED, MSG_API} ELSE {MSG_NETWORK, MSG_API}

AppInit == SseIdle /\ ExIdle /\ GlmIdle /\ NetIdle

\* everything but the component is left alone
AppFrame ==
    UNCHANGED <<sseVars, exVars, glmVars, fetchVars, aborted, onCompleteCalls,
                onErrorCalls, reader, reqVars>>

\* controller n .abort()
abort(cs, n) == [cs EXCEPT ![n].aborted = TRUE]

\* if (abortControllerRef.current) abortControllerRef.current.abort();
\* abortControllerRef.current = new AbortController()
newController ==
    /\ controllers' =
           Append(IF abortControllerRef # 0 THEN abort(controllers, abortControllerRef)
                  ELSE controllers,
                  [aborted |-> FALSE])
    /\ abortControllerRef' = Len(controllers) + 1

\* the request n with its timeout cleared and its place changed
cleared(n, at) == [requests EXCEPT ![n].timer = FALSE, ![n].at = at]

\* handleGenerate up to its first await, or to its end when no ground truth
\* is retrieved (document is the test of structureMethod, kbId, runId and
\* courseType)
handleGenerate ==
    /\ Len(requests) < MaxRequests
    /\ newController
    /\ appState' = [isLoading |-> TRUE, error |-> Undefined, glmConversationId |-> Undefined]
    /\ \E document \in BOOLEAN :
           requests' = Append(requests,
                              [kind |-> "generate",
                               at |-> IF document THEN "retrieving" ELSE "inflight",
                               timer |-> TRUE])
    /\ AppFrame

\* await retrieveGroundTruth(...) gives the items: addPage is called
GroundTruthRetrieved ==
    /\ \E n \in DOMAIN requests :
         /\ requests[n].at = "retrieving"
         /\ requests' = [requests EXCEPT ![n].at = "inflight"]
         /\ UNCHANGED <<abortControllerRef, controllers, appState>>
    /\ AppFrame

\* await retrieveGroundTruth(...) throws: the timeout is cleared, the error
\* shown and the handler returns
GroundTruthFails ==
    /\ \E n \in DOMAIN requests :
         /\ requests[n].at = "retrieving"
         /\ requests' = cleared(n, "done")
         /\ appState' = [appState EXCEPT !.error = Some(MSG_RETRIEVE), !.isLoading = FALSE]
         /\ UNCHANGED <<abortControllerRef, controllers>>
    /\ AppFrame

\* handleUpdateSlide
handleUpdateSlide ==
    /\ IF ~truthy(appState.glmConversationId)
       THEN /\ appState' = [appState EXCEPT !.error = Some(MSG_MISSING_ID)]
            /\ UNCHANGED <<abortControllerRef, controllers, requests>>
       ELSE /\ Len(requests) < MaxRequests
            /\ newController
            /\ appState' = [appState EXCEPT !.isLoading = TRUE, !.error = Undefined]
            /\ requests' = Append(requests,
                                   [kind |-> "update", at |-> "inflight", timer |-> TRUE])
    /\ AppFrame

\* handleCancelGeneration
handleCancelGeneration ==
    /\ IF abortControllerRef # 0
       THEN /\ controllers' = abort(controllers, abortControllerRef)
            /\ appState' = [appState EXCEPT !.isLoading = FALSE]
            /\ abortControllerRef' = 0
       ELSE UNCHANGED <<abortControllerRef, controllers, appState>>
    /\ UNCHANGED requests
    /\ AppFrame

\* the setTimeout callback of request n: controller.abort()
Timeout ==
    /\ \E n \in DOMAIN requests :
         /\ requests[n].timer
         /\ controllers' = abort(controllers, n)
         /\ requests' = [requests EXCEPT ![n].timer = FALSE]
         /\ UNCHANGED <<abortControllerRef, appState>>
    /\ AppFrame

\* abortControllerRef.current = null
clearRef(n) == abortControllerRef' = 0

\* the onComplete given by the handler of request n: convId is stored,
\* isLoading cleared, an error set when slides is empty
appOnComplete(n, convId, empty) ==
    /\ requests' = cleared(n, "done")
    /\ appState' = [isLoading |-> FALSE,
                    glmConversationId |-> Some(convId),
                    error |-> IF ~empty THEN appState.error
                              ELSE IF requests[n].kind = "generate" THEN Some(MSG_NO_SLIDES)
                              ELSE Some(MSG_NO_UPDATE)]
    /\ clearRef(n)
    /\ UNCHANGED controllers

\* the onError given by the handler of request n: the message is the
\* timeout message when controller.signal.aborted
appOnError(n, err) ==
    /\ requests' = cleared(n, "done")
    /\ appState' = [appState EXCEPT
                        !.isLoading = FALSE,
                        !.error = IF ~controllers[n].aborted THEN Some(err)
                                  ELSE IF requests[n].kind = "generate"
                                  THEN Some(MSG_GENERATE_TIMEOUT)
                                  ELSE Some(MSG_UPDATE_TIMEOUT)]
    /\ clearRef(n)
    /\ UNCHANGED controllers

\* callGlmAgent of request n calls onComplete: its stream ended, which an
\* aborted signal prevents
RequestCompletes ==
    /\ \E n \in DOMAIN requests :
         /\ requests[n].at = "inflight"
         /\ ~controllers[n].aborted
         /\ \E convId \in CompletedIds, empty \in BOOLEAN : appOnComplete(n, convId, empty)
    /\ AppFrame

\* callGlmAgent of request n calls onError
RequestFails ==
    /\ \E n \in DOMAIN requests :
         /\ requests[n].at = "inflight"
         /\ \E err \in ErrorsFor(controllers[n]) : appOnError(n, err)
    /\ AppFrame

AppNext ==
    \/ handleGenerate
    \/ handleUpdateSlide
    \/ handleCancelGeneration
    \/ GroundTruthRetrieved
    \/ GroundTruthFails
    \/ Timeout
    \/ RequestCompletes
    \/ RequestFails

SpecApp == AppInit /\ [][AppNext]_vars

-----------------------------------------------------------------------------
(* finalizeSlides on the extraction states onToolChunk builds, and the     *)
(* onComplete call made with its result.                                   *)

\* " "
Raw_blank == <<SP>>

\* "x<!DOCTYPE html><html>B</html>y</html>"
Raw_embedded ==
    <<"x", "<", "!", "D", "O", "C", "T", "Y", "P", "E", SP, "h", "t", "m", "l", ">">>
        \o Str_htmlOpen \o <<">", "B">> \o Str_htmlClose \o <<"y">> \o Str_htmlClose

\* "t<html>T</html>u"
Text_embedded == <<"t">> \o Str_htmlOpen \o <<">", "T">> \o Str_htmlClose \o <<"u">>

AssembleChunks ==
    {Raw_AB, Raw_blank, Raw_htmlA, Raw_ABCDclosed, Raw_upperClosed, Raw_embedded}

AssembleTexts == {<<>>, <<"t">>, Text_embedded}

MaxChunks == 2

AssembleInit ==
    /\ \E b \in AssembleTexts : state = [createExtractionState EXCEPT !.assistantBuf = b]
    /\ calls = <<>>
    /\ partials = <<>>
    /\ logs = <<>>
    /\ SseIdle
    /\ GlmIdle
    /\ NetIdle

\* onToolChunk(state, p, raw, log, onPartial) before the stream ends
AssembleChunk ==
    /\ pc = "idle"
    /\ Len(calls) < MaxChunks
    /\ \E p \in Positions, raw \in AssembleChunks :
         \E r \in {onToolChunk(state, p, raw)} :
             /\ state' = r.state
             /\ calls' = Append(calls, [pos |-> p, raw |-> raw])
             /\ partials' = partials \o r.partials
             /\ logs' = logs \o r.logs
    /\ UNCHANGED <<sseVars, glmVars, netVars>>

\* the stream ended: finalizeSlides(extractionState) and the onComplete call
Finalize ==
    /\ pc = "idle"
    /\ complete(finalConvId, finalizeSlides(state))
    /\ UNCHANGED <<sseVars, exVars, seenEventIds, shouldBreakLoop, finalConvId, walked,
                   fetchVars, aborted, callerVars, reader>>

AssembleNext == AssembleChunk \/ Finalize

SpecAssemble == AssembleInit /\ [][AssembleNext]_vars

-----------------------------------------------------------------------------
(* Properties of the framer.                                               *)

\* the characters fed so far
Fed == SubSeq(text, 1, pos)

Str_foo == <<"f", "o", "o">>
Str_bar == <<"b", "a", "r">>
Str_partial == <<"p", "a", "r", "t", "i", "a", "l">>

RoundTripEvent ==
    [event |-> MESSAGE, data |-> Str_foo \o <<LF>> \o Str_bar,
     id |-> Some(<<"1">>), retry |-> Undefined]

\* C1: whatever the split of the text into feed calls (one character per
\* call included), the events dispatched so far, the event in progress and
\* the buffered partial line are those of one feed call with all the
\* characters fed so far; "id: 1\ndata: foo\ndata: bar\n\n" yields the one
\* event {id: "1", event: "message", data: "foo\nbar"}.
FramerChunkingInvariance ==
    ~flushed =>
        LET one == feed(createSSEParser, Fed, FALSE)
        IN  /\ events = one.out
            /\ parser.ev = one.ev
            /\ parser.buffer = one.buffer
            /\ (input = ExampleRoundTrip /\ pos = Len(text)) => events = <<RoundTripEvent>>

\* the example stream was fed one character per call, to its end
FramerChunkingWitness ==
    /\ input = ExampleRoundTrip
    /\ bytewise
    /\ pos = Len(text)
    /\ ~flushed
    /\ events = <<RoundTripEvent>>

\* C2: after "data: partial" and a flush, one event was dispatched, with
\* data "partial".
FlushPartialYieldsPartial ==
    (input = ExamplePartial /\ Fed = RenderLine(ExamplePartial[1]) /\ flushed) =>
        /\ Len(events) = 1
        /\ events[1].data = Str_partial

\* the index, in input, of the line the character at position k ends
RECURSIVE CountLF(_)
CountLF(s) == IF s = <<>> THEN 0 ELSE (IF Head(s) = LF THEN 1 ELSE 0) + CountLF(Tail(s))

\* the lines of the block that the blank line input[n] ends
BlockBefore(n) ==
    LET blanks == {k \in 1..(n - 1) : input[k] = BlankLine}
        first == IF blanks = {} THEN 1 ELSE (CHOOSE k \in blanks : \A j \in blanks : j <= k) + 1
    IN  SubSeq(input, first, n - 1)

\* the values of the lines of block b that carry field f, in order
RECURSIVE ValuesOf(_, _)
ValuesOf(b, f) ==
    IF b = <<>> THEN <<>>
    ELSE (IF Head(b).field = f /\ Head(b).sep \in {NONE, COLON, COLONSP}
          THEN <<Head(b).val>> ELSE <<>>) \o ValuesOf(Tail(b), f)

\* v1 \n v2 \n ... \n vk
RECURSIVE JoinLF(_)
JoinLF(vs) ==
    IF vs = <<>> THEN <<>>
    ELSE IF Len(vs) = 1 THEN vs[1]
    ELSE vs[1] \o <<LF>> \o JoinLF(Tail(vs))

RECURSIVE DropLeadingEmpty(_)
DropLeadingEmpty(vs) ==
    IF vs # <<>> /\ Head(vs) = <<>> THEN DropLeadingEmpty(Tail(vs)) ELSE vs

\* a step that feeds one character
OneCharStep == pos' = pos + 1 /\ ~flushed'

\* a step that feeds the line feed of a blank line
BlankLineStep ==
    /\ OneCharStep
    /\ text[pos'] = LF
    /\ parser.buffer \in {<<>>, <<CR>>}

\* a one-character step that dispatches: the block it ends
DispatchedBlock == BlockBefore(CountLF(SubSeq(text, 1, pos')))

EventHasAny(ev) ==
    \/ ev.data # <<>>
    \/ (ev.id # Undefined /\ ev.id[1] # <<>>)
    \/ ev.retry # Undefined

\* C4: a blank line calls onEvent once when the event in progress has data,
\* a (non-empty) id or a retry, and not at all when it has none; no other
\* line calls it, and a flush calls it only for a buffered partial line.
BlankLineDispatch ==
    [][ /\ OneCharStep =>
            IF BlankLineStep /\ EventHasAny(parser.ev)
            THEN events' = Append(events, parser.ev)
            ELSE events' = events
        /\ (flushed' /\ ~flushed /\ events' # events) =>
            (parser.buffer # <<>> /\ Len(events') = Len(events) + 1)
      ]_vars

\* a blank line that dropped its block (an event name and an empty id),
\* then a blank line that dispatched one
BlankLineDispatchWitness ==
    /\ input = ExampleLeak
    /\ bytewise
    /\ pos = Len(text)
    /\ Len(events) = 1

\* C5 as stated: the dispatched data is v1 \n v2 \n ... \n vk for the values
\* of the block's data lines.
DataJoinedByNewline ==
    [][ (OneCharStep /\ Len(events') = Len(events) + 1) =>
            events'[Len(events')].data = JoinLF(ValuesOf(DispatchedBlock, F_data))
      ]_vars

\* C5, amended: the dispatched data is the values of the block's data lines
\* in arrival order, joined by one newline, except that a value arriving
\* while the accumulated data is still empty is appended without a
\* separator (leading empty values leave no trace); the event name and the
\* id are those of the block's last event: and id: line.
DataAccumulatesInOrder ==
    [][ (OneCharStep /\ Len(events') = Len(events) + 1) =>
            LET e == events'[Len(events')]
                names == ValuesOf(DispatchedBlock, F_event)
                ids == ValuesOf(DispatchedBlock, F_id)
            IN  /\ e.data = JoinLF(DropLeadingEmpty(ValuesOf(DispatchedBlock, F_data)))
                /\ names # <<>> => e.event = names[Len(names)]
                /\ ids # <<>> => e.id = Some(ids[Len(ids)])
      ]_vars

\* two data lines were dispatched as one event
DataAccumulatesWitness ==
    /\ input = <<Line(F_data, COLONSP, <<"a">>), Line(F_data, COLON, <<"b">>), BlankLine>>
    /\ pos = Len(text)
    /\ ~flushed
    /\ Len(events) = 1
    /\ events[1].data = <<"a", LF, "b">>

IsDigits(s) == \A k \in 1..Len(s) : s[k] \in Digits
IsPositiveNumeric(s) == s # <<>> /\ IsDigits(s) /\ \E k \in 1..Len(s) : s[k] # "0"
IsZero(s) == IsDigits(s) /\ \A k \in 1..Len(s) : s[k] = "0"
IsNonNumeric(s) == \E k \in 1..Len(s) : s[k] \notin Digits \cup {"-", "+", ".", SP}

\* C6: the retry of a dispatched event whose block has retry: lines follows
\* the last of them: undefined when its value is zero or not a number, the
\* number when it is a positive number.
RetryParsing ==
    [][ (OneCharStep /\ Len(events') = Len(events) + 1) =>
            LET e == events'[Len(events')]
                rs == ValuesOf(DispatchedBlock, F_retry)
                v == trim(rs[Len(rs)])
            IN  rs # <<>> =>
                  /\ (IsZero(v) \/ IsNonNumeric(v)) => e.retry = Undefined
                  /\ IsPositiveNumeric(v) => e.retry = Some(DecimalVal(v))
      ]_vars

\* "retry: 5", "retry:x" and "retry: 0" were each dispatched
RetryParsingWitness ==
    /\ input = ExampleRetry
    /\ pos = Len(text)
    /\ ~flushed
    /\ Len(events) = 3
    /\ events[1].retry = Some(5)
    /\ events[2].retry = Undefined
    /\ events[3].retry = Undefined

-----------------------------------------------------------------------------
(* Properties of chunk ingestion.                                          *)

\* the cleaned chunk of an onToolChunk call
Cleaned(call) == maybeDecodeJsonString(stripFences(call.raw))

\* the latest onToolChunk call of a step that made one
LastCall == calls'[Len(calls')]

CallStep == Len(calls') = Len(calls) + 1

Known(p) == p \in DOMAIN state.toolState

\* the claim's test of a finished slide: "</html>", in any case, then only
\* white space
EndsInHtmlClose(buf) ==
    \E k \in 7..Len(buf) :
        /\ lowerStr(SubSeq(buf, k - 6, k)) = <<"<", "/", "h", "t", "m", "l", ">">>
        /\ \A j \in (k + 1)..Len(buf) : buf[j] \in {SP, LF, CR, TAB}

\* C8: once a position's buffer ends in </html> (the slide is finalized),
\* no step changes its buf, lastLen or finalized.
FinalizationImmutable ==
    [][ \A p \in DOMAIN state.toolState :
            (state.toolState[p].finalized \/ EndsInHtmlClose(state.toolState[p].buf)) =>
                /\ state.toolState[p].finalized
                /\ p \in DOMAIN state'.toolState
                /\ state'.toolState[p] = state.toolState[p]
      ]_vars

\* a finalized position was sent a further chunk, a fresh document at that
FinalizationImmutableWitness ==
    /\ Len(calls) = 2
    /\ calls[1] = [pos |-> 1, raw |-> Raw_ABCDclosed]
    /\ calls[2] = [pos |-> 1, raw |-> Raw_doctypeB]
    /\ state.toolState[1] = [buf |-> Raw_ABCDclosed, lastLen |-> 11, finalized |-> TRUE]

\* s begins, after optional white space and in any case, with t
BeginsWith(s, t) ==
    \E k \in 0..Len(s) :
        /\ \A j \in 1..k : s[j] \in {SP, LF, CR, TAB}
        /\ Len(s) >= k + Len(t)
        /\ lowerStr(SubSeq(s, k + 1, k + Len(t))) = t

ResetTo(p, c) ==
    /\ state'.toolState[p].buf = c
    /\ state'.toolState[p].lastLen = Len(c)

NotFinalizedBefore(p) == Known(p) => ~state.toolState[p].finalized

\* C9 as stated: a cleaned chunk that begins with "<!doctype html" or
\* "<html" replaces the buffer of a non-finalized position.
ResetOnAnyHtmlPrefix ==
    [][ (CallStep /\ NotFinalizedBefore(LastCall.pos)) =>
            LET c == Cleaned(LastCall)
            IN  (BeginsWith(c, Str_doctype) \/ BeginsWith(c, Str_htmlOpen)) =>
                    ResetTo(LastCall.pos, c)
      ]_vars

\* C9, amended: a cleaned chunk that begins (after optional white space, in
\* any case) with "<!doctype html", or with "<html" followed at once by
\* white space or ">", replaces the buffer of a non-finalized position and
\* sets the length tracker to the chunk's length, whatever the tracker was.
ResetOverridesGrowth ==
    [][ (CallStep /\ NotFinalizedBefore(LastCall.pos)) =>
            LET c == Cleaned(LastCall)
            IN  (\/ BeginsWith(c, Str_doctype)
                 \/ BeginsWith(c, Str_htmlOpen \o <<">">>)
                 \/ \E w \in {SP, LF, CR, TAB} : BeginsWith(c, Str_htmlOpen \o <<w>>)) =>
                    ResetTo(LastCall.pos, c)
      ]_vars

\* "<html>ABCD", then the shorter "<html>A": the buffer is the second chunk
ResetOverridesGrowthWitness ==
    /\ Len(calls) = 2
    /\ calls[1] = [pos |-> 1, raw |-> Raw_htmlABCD]
    /\ calls[2] = [pos |-> 1, raw |-> Raw_htmlA]
    /\ state.toolState[1] = [buf |-> Raw_htmlA, lastLen |-> 7, finalized |-> FALSE]

\* the cleaned chunks sent to position p, in order
RECURSIVE CleanedFor(_, _)
CleanedFor(cs, p) ==
    IF cs = <<>> THEN <<>>
    ELSE (IF Head(cs).pos = p THEN <<Cleaned(Head(cs))>> ELSE <<>>) \o CleanedFor(Tail(cs), p)

IsProperPrefix(a, b) == Len(a) < Len(b) /\ SubSeq(b, 1, Len(a)) = a

IsSnapshotChain(ss) == \A i \in 1..(Len(ss) - 1) : IsProperPrefix(ss[i], ss[i + 1])

NeverIgnored(p) == \A k \in 1..Len(logs) : logs[k] # LogLine("ignored", p)

\* C10: when the cleaned chunks sent to a position are cumulative snapshots
\* (each a proper prefix of the next) and none was dropped for the position
\* being finalized, the buffer is the last snapshot and the length tracker
\* its length.
MonotonicDeltaExtraction ==
    \A p \in DOMAIN state.toolState :
        LET ss == CleanedFor(calls, p)
        IN  (ss # <<>> /\ IsSnapshotChain(ss) /\ NeverIgnored(p)) =>
                /\ state.toolState[p].buf = ss[Len(ss)]
                /\ state.toolState[p].lastLen = Len(ss[Len(ss)])

\* "AB", "ABCD", "ABCD</html>" grew the buffer by suffixes
MonotonicDeltaWitness ==
    /\ Len(calls) = 3
    /\ calls[1] = [pos |-> 2, raw |-> Raw_AB]
    /\ calls[2] = [pos |-> 2, raw |-> Raw_ABCD]
    /\ calls[3] = [pos |-> 2, raw |-> Raw_ABCDclosed]
    /\ state.toolState[2] = [buf |-> Raw_ABCDclosed, lastLen |-> 11, finalized |-> TRUE]

-----------------------------------------------------------------------------
(* Properties of the transport: the read loop and the stream callback.     *)

\* C3: when the stream has ended and parse("", { flush: true }) has run,
\* the framer holds no event in progress with data: every data line received
\* was delivered in a dispatched event.
FinalFlushDeliversTrailing ==
    pc = "finished" => parser.ev.data = <<>>

\* the i-th framed event carries a non-empty id that an earlier framed
\* event carried
LaterDuplicate(es, i) ==
    /\ HasId(es[i])
    /\ \E j \in 1..(i - 1) : HasId(es[j]) /\ es[j].id = es[i].id

\* the first framed event with the id
FirstFramed(es, id) ==
    es[CHOOSE i \in 1..Len(es) :
          /\ es[i].id = id
          /\ \A j \in 1..(i - 1) : es[j].id # id]

\* per non-empty id, walkEvent got at most one event, the first framed
\* with that id
WalkedOncePerId ==
    \A i \in 1..Len(walked) :
        HasId(walked[i]) =>
            /\ \A j \in 1..Len(walked) : walked[j].id = walked[i].id => j = i
            /\ walked[i] = FirstFramed(events, walked[i].id)

\* the events this step framed, all of them later duplicates
FramedDuplicatesOnly ==
    /\ Len(events') > Len(events)
    /\ \A i \in (Len(events) + 1)..Len(events') : LaterDuplicate(events', i)

\* C7: for every non-empty event id at most one framed event with that id
\* is passed to walkEvent, the first; a later event with the id is dropped
\* before the [DONE] test and JSON.parse: it changes neither the extraction
\* state nor the log, makes no onPartial and no onToolChunk call and does
\* not end the loop.
DuplicateSuppression ==
    [][/\ WalkedOncePerId'
       /\ FramedDuplicatesOnly =>
              UNCHANGED <<state, partials, calls, logs, walked, shouldBreakLoop,
                          seenEventIds, finalConvId>>]_vars

\* two payload events with the id "1" were framed: the first was walked
\* ("AB" reported for position 1), the second dropped
DuplicateSuppressionWitness ==
    /\ input = EventBlock(Some(<<"1">>), <<"{A}">>) \o EventBlock(Some(<<"1">>), <<"{B}">>)
    /\ pos = Len(text)
    /\ Len(events) = 2
    /\ walked = <<events[1]>>
    /\ partials = <<[pos |-> 1, html |-> <<"A", "B">>, complete |-> FALSE]>>
    /\ state.toolState[1].buf = <<"A", "B">>

-----------------------------------------------------------------------------
(* Further properties of chunk ingestion.                                  *)

\* the entry of position p before an onToolChunk call (upsertPos)
EntryBefore(p) == IF Known(p) THEN state.toolState[p] ELSE NewToolState

\* c begins (after optional white space, in any case) with "<!doctype html",
\* or with "<html" followed at once by white space or ">"
DocumentStart(c) ==
    \/ BeginsWith(c, Str_doctype)
    \/ BeginsWith(c, Str_htmlOpen \o <<">">>)
    \/ \E w \in {SP, LF, CR, TAB} : BeginsWith(c, Str_htmlOpen \o <<w>>)

\* C11: for a non-finalized position, a non-empty cleaned chunk that is no
\* document start and is shorter than the length tracker is appended whole
\* to the buffer and the tracker becomes the buffer's new length; a chunk
\* as long as the tracker leaves buffer and tracker as they were.
ShrinkAppendsWhole ==
    [][ (CallStep /\ NotFinalizedBefore(LastCall.pos)) =>
            LET c == Cleaned(LastCall)
                old == EntryBefore(LastCall.pos)
                new == state'.toolState[LastCall.pos]
            IN  ~DocumentStart(c) =>
                    /\ (c # <<>> /\ Len(c) < old.lastLen) =>
                            /\ new.buf = old.buf \o c
                            /\ new.lastLen = Len(old.buf) + Len(c)
                    /\ Len(c) = old.lastLen =>
                            /\ new.buf = old.buf
                            /\ new.lastLen = old.lastLen
      ]_vars

\* "ABCD", then the shorter "AB": appended whole ("ABCDAB"), tracker 6
ShrinkAppendsWholeWitness ==
    /\ Len(calls) = 2
    /\ calls[1] = [pos |-> 1, raw |-> Raw_ABCD]
    /\ calls[2] = [pos |-> 1, raw |-> Raw_AB]
    /\ state.toolState[1] = [buf |-> Raw_ABCD \o Raw_AB, lastLen |-> 6, finalized |-> FALSE]

\* the onPartial calls a step made
NewPartials == SubSeq(partials', Len(partials) + 1, Len(partials'))

\* C12: each chunk ingested for a non-finalized position reports complete =
\* TRUE exactly when the updated buffer ends with "</html>" (in any case,
\* trailing white space allowed), and the position is finalized exactly then.
CompletionDetection ==
    [][ (CallStep /\ NotFinalizedBefore(LastCall.pos)) =>
            LET new == state'.toolState[LastCall.pos]
            IN  /\ Len(NewPartials) = 1
                /\ NewPartials[1].complete = EndsInHtmlClose(new.buf)
                /\ new.finalized = EndsInHtmlClose(new.buf)
      ]_vars

\* "<html>A", reported incomplete, then "<HTML>A</HTML> ": a reset whose
\* buffer ends in the closing tag in upper case and a space
CompletionDetectionWitness ==
    /\ Len(calls) = 2
    /\ calls[1] = [pos |-> 1, raw |-> Raw_htmlA]
    /\ calls[2] = [pos |-> 1, raw |-> Raw_upperClosed]
    /\ partials = <<[pos |-> 1, html |-> Raw_htmlA, complete |-> FALSE],
                    [pos |-> 1, html |-> Raw_upperClosed, complete |-> TRUE]>>
    /\ state.toolState[1].finalized

\* the step made one onPartial call, for the chunk's position, with the
\* position's buffer after the chunk
OnePartialWithBuffer ==
    /\ Len(NewPartials) = 1
    /\ NewPartials[1].pos = LastCall.pos
    /\ NewPartials[1].html = state'.toolState[LastCall.pos].buf

\* C13 as stated: every chunk forwarded to chunk ingestion makes exactly one
\* onPartial call, with the position's buffer after the chunk.
PartialOnEveryChunk ==
    [][CallStep => OnePartialWithBuffer]_vars

\* C13, amended: every chunk forwarded to chunk ingestion for a position
\* that is not finalized makes exactly one onPartial call, with the
\* position's buffer after the chunk, whether or not the chunk changed the
\* buffer or completed the slide; a chunk for a finalized position makes
\* none.
PartialOnEveryLiveChunk ==
    [][ CallStep =>
            IF NotFinalizedBefore(LastCall.pos)
            THEN OnePartialWithBuffer
            ELSE NewPartials = <<>>
      ]_vars

\* "<html>A", then "</html>" (as long as the tracker: the buffer stays):
\* two onPartial calls with the same html
PartialOnEveryLiveChunkWitness ==
    /\ Len(calls) = 2
    /\ calls[1] = [pos |-> 1, raw |-> Raw_htmlA]
    /\ calls[2] = [pos |-> 1, raw |-> Raw_close]
    /\ partials = <<[pos |-> 1, html |-> Raw_htmlA, complete |-> FALSE],
                    [pos |-> 1, html |-> Raw_htmlA, complete |-> FALSE]>>

\* C14: a chunk addressed to position p leaves the buffer, length tracker
\* and finalized flag of every other position as they were, creates no
\* entry but p's, and leaves the assistant text buffer unchanged.
PositionIsolation ==
    [][ CallStep =>
            /\ \A q \in DOMAIN state.toolState :
                   q # LastCall.pos =>
                       /\ q \in DOMAIN state'.toolState
                       /\ state'.toolState[q] = state.toolState[q]
            /\ DOMAIN state'.toolState = DOMAIN state.toolState \cup {LastCall.pos}
            /\ state'.assistantBuf = state.assistantBuf
      ]_vars

\* chunks for positions 1 and 2 interleaved: "AB" for 1, "<html>A" for 2,
\* "ABCD" for 1, with assistant text gathered before
PositionIsolationWitness ==
    /\ Len(calls) = 3
    /\ calls[1] = [pos |-> 1, raw |-> Raw_AB]
    /\ calls[2] = [pos |-> 2, raw |-> Raw_htmlA]
    /\ calls[3] = [pos |-> 1, raw |-> Raw_ABCD]
    /\ state.toolState[1] = [buf |-> Raw_ABCD, lastLen |-> 4, finalized |-> FALSE]
    /\ state.toolState[2] = [buf |-> Raw_htmlA, lastLen |-> 7, finalized |-> FALSE]
    /\ state.assistantBuf = <<"t">>

-----------------------------------------------------------------------------
(* Properties of walkEvent.                                                *)

\* the tool call of the payload a step walked
WalkedTool == walked'[Len(walked')].choices[1].messages[1].content[1].object[1]

\* the value parses to a number
ParsesToNumber(x) == ~toNumber(x).nan

\* C15: the position of a tool call is the first element of its position
\* array when that parses to a number, else its page_index when that parses
\* to a number, else 1; a first element 0 gives position 0.
PositionExtraction ==
    [][ (Len(walked') = Len(walked) + 1 /\ CallStep) =>
            LET o == WalkedTool
                first == FirstOf(o.position)
            IN  LastCall.pos =
                    IF ParsesToNumber(first) THEN toNumber(first).n
                    ELSE IF ParsesToNumber(o.page_index) THEN toNumber(o.page_index).n
                    ELSE 1
      ]_vars

-----------------------------------------------------------------------------
(* Properties of debugFetch.                                               *)

\* the trace entries that are fetch calls, and those that are outcomes
FetchCalls == {i \in DOMAIN trace : trace[i].op = "fetch"}
Outcomes == {i \in DOMAIN trace : trace[i].op \in {"response", "reject"}}

\* the attempt ended in a response with status >= 500 or a network error
Failed(e) ==
    \/ e.op = "response" /\ e.arg >= 500
    \/ e.op = "reject" /\ e.arg = "TypeError"

\* the last outcome before the i-th entry, 0 when there is none
OutcomeBefore(i) ==
    IF \E j \in Outcomes : j < i
    THEN CHOOSE j \in Outcomes : j < i /\ \A k \in Outcomes : k < i => k <= j
    ELSE 0

\* C16: with retries = N >= 1, fetch is called at most N times; a fetch
\* after the first follows a response with status >= 500 or a TypeError,
\* never an abort or another exception; a response with status below 500 is
\* returned at once, with no further fetch.
RetryPolicy ==
    retries >= 1 =>
        /\ Cardinality(FetchCalls) <= retries
        /\ \A i \in FetchCalls :
               IF OutcomeBefore(i) = 0 THEN trace[i].attempt = 1
               ELSE Failed(trace[OutcomeBefore(i)])
        /\ \A j \in Outcomes :
               (trace[j].op = "response" /\ trace[j].arg < 500) =>
                   /\ j = Len(trace)
                   /\ fpc = "returned"
                   /\ result = Some(Returned(trace[j].arg))

\* three attempts: a 503, a network error, then a 404 that is returned
RetryPolicyWitness ==
    /\ retries = 3
    /\ fpc = "returned"
    /\ result = Some(Returned(404))
    /\ trace = <<Entry("fetch", 1, 0), Entry("response", 1, 503),
                 Entry("wait", 2, 1000), Entry("fetch", 2, 0), Entry("reject", 2, "TypeError"),
                 Entry("wait", 3, 2000), Entry("fetch", 3, 0), Entry("response", 3, 404)>>

\* C17: when debugFetch has ended and each of its N >= 1 attempts failed (a
\* response with status >= 500 or a network error), it has thrown the last
\* error and returned no response.
ExhaustedRetriesThrow ==
    (/\ retries >= 1
     /\ fpc \in {"returned", "thrown"}
     /\ Cardinality(Outcomes) = retries
     /\ \A j \in Outcomes : Failed(trace[j])) =>
        /\ result # Undefined
        /\ result[1].kind = "throw"
        /\ lastError # Undefined
        /\ result[1].err = lastError[1]

\* the waits of the trace, in order
RECURSIVE WaitsOf(_)
WaitsOf(tr) ==
    IF tr = <<>> THEN <<>>
    ELSE (IF Head(tr).op = "wait" THEN <<Head(tr).arg>> ELSE <<>>) \o WaitsOf(Tail(tr))

\* C18: there is no wait before attempt 1; the wait before attempt k >= 2 is
\* 1000 * (k - 1) ms, comes right after the failure of attempt k - 1 and
\* right before the fetch of attempt k; the waits up to the third fetch are
\* 1000, then 2000 ms.
BackoffSchedule ==
    /\ \A i \in DOMAIN trace :
           trace[i].op = "wait" =>
               /\ trace[i].attempt >= 2
               /\ trace[i].arg = 1000 * (trace[i].attempt - 1)
               /\ i > 1
               /\ trace[i - 1].attempt = trace[i].attempt - 1
               /\ Failed(trace[i - 1])
               /\ i < Len(trace) => trace[i + 1] = Entry("fetch", trace[i].attempt, 0)
    /\ \A i \in FetchCalls :
           IF trace[i].attempt = 1 THEN i = 1
           ELSE i > 1 /\ trace[i - 1].op = "wait" /\ trace[i - 1].attempt = trace[i].attempt
    /\ \A i \in FetchCalls :
           trace[i].attempt = 3 => WaitsOf(SubSeq(trace, 1, i)) = <<1000, 2000>>

\* three attempts were made, after two responses with status 500
BackoffScheduleWitness ==
    /\ retries = 3
    /\ fpc = "fetching"
    /\ attempt = 3
    /\ trace = <<Entry("fetch", 1, 0), Entry("response", 1, 500),
                 Entry("wait", 2, 1000), Entry("fetch", 2, 0), Entry("response", 2, 500),
                 Entry("wait", 3, 2000), Entry("fetch", 3, 0)>>

-----------------------------------------------------------------------------
(* Further properties of the transport.                                    *)

\* the event's trimmed data is "[DONE]"
DoneData(e) == trim(e.data) = Str_DONE

\* the index of the first framed [DONE] event, 0 when there is none
FirstDone(es) ==
    IF \E i \in DOMAIN es : DoneData(es[i])
    THEN CHOOSE i \in DOMAIN es : DoneData(es[i]) /\ \A j \in 1..(i - 1) : ~DoneData(es[j])
    ELSE 0

\* C19: once a [DONE] event was framed, nothing more of the stream is
\* processed: the events passed to walkEvent were all framed before it
\* (none later in the same chunk, in a later chunk or from the final
\* flush), and no further chunk is read.
DoneShortCircuit ==
    [][ /\ FirstDone(events') # 0 => Len(walked') <= FirstDone(events') - 1
        /\ FirstDone(events) # 0 => (pos' = pos /\ walked' = walked)
      ]_vars

\* C20: once the signal is aborted while callGlmAgent awaits the fetch, a
\* backoff or a body read, no further chunk is processed (nothing is fed,
\* framed, walked or reported), onComplete is never called, and the call
\* ends in the catch block with exactly one onError call, whose message is
\* 'Request aborted by client.'.
CancellationStops ==
    [][ /\ aborted =>
               /\ pos' = pos /\ events' = events /\ walked' = walked
               /\ state' = state /\ partials' = partials
        /\ aborted' =>
               /\ onCompleteCalls' = <<>>
               /\ pc' \in {"fetching", "reading", "error-body", "failed"}
               /\ onErrorCalls' = IF pc' = "failed" THEN <<MSG_ABORTED>> ELSE <<>>
      ]_vars

\* the signal was aborted in the middle of the stream, after a payload was
\* walked: the call ended with the one onError call
CancellationStopsWitness ==
    /\ aborted
    /\ pc = "failed"
    /\ pos > 0 /\ pos < Len(text)
    /\ walked # <<>>
    /\ onCompleteCalls = <<>>
    /\ onErrorCalls = <<MSG_ABORTED>>

-----------------------------------------------------------------------------
(* Properties of the completion of callGlmAgent.                           *)

\* the number of terminal callbacks called so far
TerminalCalls == Len(onCompleteCalls) + Len(onErrorCalls)

\* C21: every invocation of callGlmAgent ends with exactly one terminal
\* callback, onComplete or onError, called exactly once: never both, never
\* neither, on every path, an exception thrown inside the completion
\* callback included.
ExactlyOneTerminalCallback ==
    /\ TerminalCalls <= 1
    /\ pc \in {"finished", "failed"} => TerminalCalls = 1

\* the data of the event is neither the end marker nor JSON
Malformed(e) == ~DoneData(e) /\ ~jsonParse(e.data).ok

\* the data of the event is JSON
ValidJson(e) == ~DoneData(e) /\ jsonParse(e.data).ok

\* the i-th framed event is a [DONE] marker the callback did not drop as a
\* duplicate
EffectiveDone(es, i) == DoneData(es[i]) /\ ~LaterDuplicate(es, i)

\* the index of the first framed event that is no JSON, 0 without one
FirstMalformed(es) ==
    IF \E i \in DOMAIN es : Malformed(es[i])
    THEN CHOOSE i \in DOMAIN es : Malformed(es[i]) /\ \A j \in 1..(i - 1) : ~Malformed(es[j])
    ELSE 0

\* the events of es past index k that are JSON
RECURSIVE validAfter(_, _)
validAfter(es, k) ==
    IF Len(es) <= k THEN <<>>
    ELSE validAfter(SubSeq(es, 1, Len(es) - 1), k)
             \o (IF ValidJson(es[Len(es)]) THEN <<es[Len(es)]>> ELSE <<>>)

\* t is the end of s
IsSuffix(t, s) == Len(t) <= Len(s) /\ SubSeq(s, Len(s) - Len(t) + 1, Len(s)) = t

\* the first n events of es that are JSON, carry no id seen before and are
\* framed before any [DONE] marker that was processed
RECURSIVE forwardable(_, _)
forwardable(es, n) ==
    IF n = 0 THEN <<>>
    ELSE forwardable(es, n - 1)
             \o (IF /\ ValidJson(es[n])
                    /\ ~LaterDuplicate(es, n)
                    /\ \A j \in 1..(n - 1) : ~EffectiveDone(es, j)
                 THEN <<es[n]>> ELSE <<>>)

\* the events that are no JSON, or on which walkEvent throws, among the
\* processed ones before any [DONE] marker
Unhandled(es) ==
    {i \in DOMAIN es :
        /\ ~DoneData(es[i])
        /\ ~LaterDuplicate(es, i)
        /\ \A j \in 1..(i - 1) : ~EffectiveDone(es, j)
        /\ (jsonParse(es[i].data).ok => es[i].data = <<"{T}">>)}

ParseErrorLogs == {k \in DOMAIN logs : logs[k].kind = "parse-error"}

\* C22 as stated: once an event that is no JSON was framed, every valid
\* event framed after it is passed to walkEvent, and the call ends in
\* onComplete when the stream ends.
MalformedJsonSkipped ==
    /\ FirstMalformed(events) # 0 =>
           IsSuffix(validAfter(events, FirstMalformed(events)), walked)
    /\ pc \in {"finished", "failed"} => Len(onCompleteCalls) = 1

\* the events so far were handled as the amended C22 says
SkippedAndForwarded ==
    /\ Len(walked) >= Len(forwardable(events, Len(events)))
    /\ SubSeq(walked, 1, Len(forwardable(events, Len(events)))) = forwardable(events, Len(events))
    /\ Cardinality(ParseErrorLogs) >= Cardinality(Unhandled(events))
    /\ pc \in {"finished", "failed"} => Len(onCompleteCalls) = 1

\* C22, amended: an event that is no JSON, or on which walkEvent throws, is
\* logged and does not end the stream (after a chunk without a processed
\* [DONE] marker the loop reads on): every valid event that carries no id
\* seen before and is framed before any processed [DONE] marker is passed to
\* walkEvent, in order, and the call ends in onComplete when the stream ends.
MalformedJsonSkippedUnlessDuplicate ==
    [][ /\ SkippedAndForwarded'
        /\ (pos' > pos /\ \A i \in DOMAIN events' : ~EffectiveDone(events', i))
               => pc' = "reading"
      ]_vars

\* an event that is no JSON was framed, a valid event after it was walked,
\* and the stream ended with the onComplete call
MalformedJsonSkippedWitness ==
    /\ pc = "finished"
    /\ Len(events) = 2
    /\ Malformed(events[1])
    /\ walked = <<events[2]>>
    /\ Len(onCompleteCalls) = 1

\* C23: on every exit path of callGlmAgent the response body reader is
\* released: the stream was read to its end, or it was cancelled or aborted;
\* no path returns with the reader still open and undrained.
ReaderReleased ==
    pc \in {"finished", "failed"} => reader # "open"

-----------------------------------------------------------------------------
(* Properties of finalizeSlides.                                           *)

\* the positions of a list of slides, and the page numbers of a list of
\* generated slides
PositionsOf(slides) == [k \in DOMAIN slides |-> slides[k].position]
PageNumbersOf(slides) == [k \in DOMAIN slides |-> slides[k].pageNumber]

StrictlyAscending(ns) == \A i, j \in DOMAIN ns : i < j => ns[i] < ns[j]

\* the tool positions whose buffer is more than white space
NonBlank(st) == {p \in DOMAIN st.toolState : trim(st.toolState[p].buf) # <<>>}

\* the list has one entry for each tool position with a buffer that is more
\* than white space, and none for another tool position
OnePerNonBlank(ns, st) ==
    /\ StrictlyAscending(ns)
    /\ \A p \in DOMAIN st.toolState : (\E k \in DOMAIN ns : ns[k] = p) <=> p \in NonBlank(st)

\* C24 as stated: the positions finalizeSlides returns are strictly
\* ascending, one for each position with a non-blank buffer and none for
\* another tool position; so are the page numbers given to onComplete.
SlideListShape ==
    /\ OnePerNonBlank(PositionsOf(finalizeSlides(state)), state)
    /\ \A k \in DOMAIN onCompleteCalls :
           OnePerNonBlank(PageNumbersOf(onCompleteCalls[k].slides), state)

\* the positions of the amended C24
ShapeOrFallback(ns, st) ==
    IF NonBlank(st) # {}
    THEN ns = sortAscending(NonBlank(st))
    ELSE ns \in {<<>>, <<1>>}

\* C24, amended: when some tool position has a non-blank buffer, the
\* positions finalizeSlides returns are exactly those positions, strictly
\* ascending; when none has, the list is empty or holds the one slide of
\* the assistant text, at position 1.  The page numbers given to onComplete
\* are the same list.
SlideListShapeOrFallback ==
    /\ ShapeOrFallback(PositionsOf(finalizeSlides(state)), state)
    /\ StrictlyAscending(PositionsOf(finalizeSlides(state)))
    /\ \A k \in DOMAIN onCompleteCalls :
           PageNumbersOf(onCompleteCalls[k].slides) = PositionsOf(finalizeSlides(state))

\* onComplete got the slides of positions 1 and 2, position 2 filled first
SlideListShapeWitness ==
    /\ Len(calls) = 2
    /\ calls[1].pos = 2
    /\ calls[2].pos = 1
    /\ Len(onCompleteCalls) = 1
    /\ PageNumbersOf(onCompleteCalls[1].slides) = <<1, 2>>

\* s holds a span from the opening to a later "</html>", in any case
HasSpan(s, open) ==
    \E i \in occurrences(lowerStr(s), open) :
        \E j \in occurrences(lowerStr(s), Str_htmlClose) : j >= i + Len(open)

\* the buffer holds no complete document
NoDocument(buf) == ~HasSpan(buf, Str_doctype) /\ ~HasSpan(buf, Str_htmlOpen)

Str_head == <<"<", "h", "e", "a", "d", ">">>
Str_body == <<"<", "b", "o", "d", "y", ">">>
Str_bodyClose == <<"<", "/", "b", "o", "d", "y", ">">>
Str_titleSlide == <<"<", "t", "i", "t", "l", "e", ">", "S", "l", "i", "d", "e", SP>>
Str_titleClose == <<"<", "/", "t", "i", "t", "l", "e", ">">>

\* html is a complete document for position p around the text inner
IsShellOf(html, p, inner) ==
    /\ startsWithStr(html, Str_doctype \o <<">">>)
    /\ contains(html, Str_head)
    /\ contains(html, Str_titleSlide \o decimal(p) \o Str_titleClose)
    /\ endsWithStr(html, Str_body \o inner \o Str_bodyClose \o Str_htmlClose)

\* the slides of the list at position p
SlidesAt(slides, p) == {k \in DOMAIN slides : slides[k].position = p}

\* every tool position of Q gets one slide, the shell around its
\* fence-stripped buffer
ShellFor(Q, st, slides) ==
    \A p \in Q :
        NoDocument(st.toolState[p].buf) =>
            /\ Cardinality(SlidesAt(slides, p)) = 1
            /\ \A k \in SlidesAt(slides, p) :
                   IsShellOf(slides[k].html, p, stripFences(st.toolState[p].buf))

EmbeddedDocument(html, txt) ==
    /\ contains(txt, html)
    /\ \/ startsWithStr(lowerStr(html), Str_doctype)
       \/ startsWithStr(lowerStr(html), Str_htmlOpen)
    /\ occurrences(lowerStr(html), Str_htmlClose) = {Len(html) - Len(Str_htmlClose) + 1}

\* the slides made from the assistant text alone
FromAssistantText(slides, txt) ==
    IF NoDocument(txt) THEN slides = <<>>
    ELSE /\ Len(slides) = 1
         /\ slides[1].position = 1
         /\ EmbeddedDocument(slides[1].html, txt)

\* C26: the assistant text is consulted only when no tool position produced
\* a slide: then the list is the one slide at position 1 holding the HTML
\* document embedded in the text, or empty without one; with a tool slide,
\* the list is the same whatever the assistant text.
AssemblyFallback ==
    /\ IF NonBlank(state) = {}
       THEN FromAssistantText(finalizeSlides(state), state.assistantBuf)
       ELSE \A t \in AssembleTexts :
                finalizeSlides([state EXCEPT !.assistantBuf = t]) = finalizeSlides(state)
    /\ \A c \in DOMAIN onCompleteCalls :
           onCompleteCalls[c].slides = finalSlidesOf(finalizeSlides(state))

\* no tool position has content (position 1 got a blank chunk), the
\* assistant text holds "<html>T</html>", and onComplete got it as the one
\* slide, at position 1
AssemblyFallbackWitness ==
    /\ DOMAIN state.toolState = {1}
    /\ state.assistantBuf = Text_embedded
    /\ Len(onCompleteCalls) = 1
    /\ Len(onCompleteCalls[1].slides) = 1
    /\ onCompleteCalls[1].slides[1].pageNumber = 1
    /\ onCompleteCalls[1].slides[1].html = Str_htmlOpen \o <<">", "T">> \o Str_htmlClose

-----------------------------------------------------------------------------
(* Properties of the completion, continued.                                *)

\* C27: when the stream ended normally (the final flush ran) and no slide
\* was extracted, onComplete was called once, with the empty slide list,
\* and onError was not called by a call whose onComplete returned.
ZeroSlidesIsNotAnError ==
    (flushed /\ finalizeSlides(state) = <<>>) =>
        /\ Len(onCompleteCalls) = 1
        /\ onCompleteCalls[1].slides = <<>>
        /\ onCompleteCalls[1].outcome = "returns" => (pc = "finished" /\ onErrorCalls = <<>>)

\* the empty stream of a 200 response ended: onComplete got no slide and
\* onError was not called
ZeroSlidesWitness ==
    /\ input = <<>>
    /\ pc = "finished"
    /\ flushed
    /\ Len(onCompleteCalls) = 1
    /\ onCompleteCalls[1].slides = <<>>
    /\ onErrorCalls = <<>>

\* the conversation_id of a walked event
ConversationIdOf(e) == jsonParse(e.data).obj.conversation_id

\* the first non-empty conversation_id among the events es, "" without one
RECURSIVE FirstConversationId(_)
FirstConversationId(es) ==
    IF es = <<>> THEN <<>>
    ELSE IF ConversationIdOf(Head(es)) # Undefined /\ ConversationIdOf(Head(es))[1] # <<>>
    THEN ConversationIdOf(Head(es))[1]
    ELSE FirstConversationId(Tail(es))

\* C28: finalConvId starts as the conversationId supplied at call time, or
\* "" without one.  A non-empty value is never changed by an event; while it
\* is "", it becomes the conversation_id of the first processed event that
\* carries a non-empty one; onComplete gets its value when the stream ends.
ConversationIdResolution ==
    [][ /\ finalConvId # <<>> => finalConvId' = finalConvId
        /\ finalConvId = <<>> =>
               finalConvId' = FirstConversationId(SubSeq(walked', Len(walked) + 1, Len(walked')))
        /\ Len(onCompleteCalls') > Len(onCompleteCalls) =>
               onCompleteCalls'[Len(onCompleteCalls')].convId = finalConvId'
      ]_vars

\* no conversationId was supplied, the events carried "", "c1" and "c2" in
\* this order, and onComplete got "c1"
ConversationIdFromEvent ==
    /\ Len(walked) = 3
    /\ FirstConversationId(walked) = Str_c1
    /\ Len(onCompleteCalls) = 1
    /\ onCompleteCalls[1].convId = Str_c1

\* the conversationId "c0" was supplied, the events carried other ids, and
\* onComplete got "c0"
ConversationIdResolutionWitness ==
    /\ Len(walked) = 3
    /\ FirstConversationId(walked) = Str_c1
    /\ Len(onCompleteCalls) = 1
    /\ onCompleteCalls[1].convId = Str_c0

\* C29: the stream of two tool-call events for position 2 with the
\* snapshots '<!doctype html><html><body>Hi' and
\* '<!doctype html><html><body>Hi</body></html>', then [DONE]: once the
\* three events are framed, the partial callbacks for position 2 reported
\* complete=false then complete=true, and onComplete gets exactly one slide,
\* pageNumber 2, html equal to the second snapshot, complete true.
EndToEndScenario ==
    (input = ScenarioStream /\ Len(events) = 3) =>
        /\ partials = <<[pos |-> 2, html |-> Raw_hiOpen, complete |-> FALSE],
                        [pos |-> 2, html |-> Raw_hiDocument, complete |-> TRUE]>>
        /\ Len(onCompleteCalls) = 1
        /\ Len(onCompleteCalls[1].slides) = 1
        /\ onCompleteCalls[1].slides[1].pageNumber = 2
        /\ onCompleteCalls[1].slides[1].html = Raw_hiDocument
        /\ onCompleteCalls[1].slides[1].complete = TRUE

\* the scenario ran to its end, read one character at a time
EndToEndScenarioWitness ==
    /\ input = ScenarioStream
    /\ Len(events) = 3
    /\ pos = Len(text)
    /\ bytewise
    /\ pc = "finished"
    /\ Len(onCompleteCalls) = 1
    /\ Len(onCompleteCalls[1].slides) = 1

-----------------------------------------------------------------------------
(* Properties of walkEvent, continued.                                     *)

\* the word w stands in s from index k on
WordAt(s, k, w) == k + Len(w) - 1 <= Len(s) /\ SubSeq(s, k, k + Len(w) - 1) = w

\* /(insert|add).*?(page|slide)/.test(tool): 'insert' or 'add', and after
\* it 'page' or 'slide'
MatchesInOrder(tool) ==
    \E v \in {<<"i", "n", "s", "e", "r", "t">>, <<"a", "d", "d">>} :
        \E w \in {<<"p", "a", "g", "e">>, <<"s", "l", "i", "d", "e">>} :
            \E i \in 1..Len(tool), j \in 1..Len(tool) :
                WordAt(tool, i, v) /\ WordAt(tool, j, w) /\ j >= i + Len(v)

\* the tool name of the one part of the payload walked last
LastTool == toolName(walked'[Len(walked')].choices[1].messages[1].content[1].object[1])

\* C30: the object part of a walked payload is forwarded to onToolChunk only
\* if its lowercased tool name matches (insert|add).*?(page|slide); with
\* another name ('page_add' included) no slide buffer changes and no partial
\* callback is made.
ToolCallSelection ==
    [][ (Len(walked') = Len(walked) + 1 /\ ~MatchesInOrder(LastTool)) =>
            /\ state'.toolState = state.toolState
            /\ partials' = partials
            /\ calls' = calls
      ]_vars

-----------------------------------------------------------------------------
(* Invariants of the extraction state.                                     *)

\* C31: for every slide position, after every call of onToolChunk (reset,
\* growth, shrink, bootstrap or no-op), lastLen is the length of the buffer.
LengthTracker ==
    \A p \in DOMAIN state.toolState :
        state.toolState[p].lastLen = Len(state.toolState[p].buf)

\* a position took a reset, a growth and a shrink chunk, and its lastLen is
\* the length of its buffer
LengthTrackerWitness ==
    /\ Len(calls) = 3
    /\ \A k \in 1..3 : calls[k].pos = 1
    /\ {"reset", "grow", "non-monotonic"} \subseteq {logs[k].kind : k \in DOMAIN logs}
    /\ state.toolState[1].lastLen = Len(state.toolState[1].buf)
    /\ state.toolState[1].lastLen > 0

\* C32: between calls of onToolChunk, a position is finalized exactly when
\* its buffer ends with "</html>" (in any case) followed only by white
\* space; no position is finalized with an empty buffer.
FinalizedFlag ==
    \A p \in DOMAIN state.toolState :
        /\ state.toolState[p].finalized <=> EndsInHtmlClose(state.toolState[p].buf)
        /\ state.toolState[p].finalized => state.toolState[p].buf # <<>>

\* position 1 is finalized with "<HTML>A</HTML> " while position 2 holds an
\* open buffer
FinalizedFlagWitness ==
    /\ DOMAIN state.toolState = {1, 2}
    /\ state.toolState[1].finalized
    /\ state.toolState[1].buf = Raw_upperClosed
    /\ ~state.toolState[2].finalized
    /\ state.toolState[2].buf # <<>>

\* C33: for each position the partial callback is called with complete =
\* TRUE at most once, and after that call it is not called again for the
\* position, complete or not.
OneCompletionPerPosition ==
    \A i, j \in DOMAIN partials :
        (i < j /\ partials[i].pos = partials[j].pos) => ~partials[i].complete

\* position 1 was reported incomplete, then complete, and a third chunk for
\* it made no further call
OneCompletionWitness ==
    /\ Len(calls) = 3
    /\ \A k \in 1..3 : calls[k].pos = 1
    /\ Len(partials) = 2
    /\ ~partials[1].complete
    /\ partials[2].complete

-----------------------------------------------------------------------------
(* Properties of the framer, continued.                                    *)

\* the block is dropped at its blank line: no data, no id, no retry
Dropped(ev) == ev.data = <<>> /\ IdFalsy(ev) /\ ev.retry = Undefined

\* the events of the lines ls when every block starts from the empty
\* pending event: ev is built from the field lines since the last blank line
RECURSIVE blockEvents(_, _)
blockEvents(ls, ev) ==
    IF ls = <<>> THEN <<>>
    ELSE IF Head(ls) = BlankLine
    THEN (IF Dropped(ev) THEN <<>> ELSE <<ev>>) \o blockEvents(Tail(ls), NewEvent)
    ELSE blockEvents(Tail(ls), applyField(ev, RenderLine(Head(ls))))

\* C34: every dispatched event holds only values set by field lines that
\* arrived after the previous blank line: once the whole text is fed, the
\* events are those of the blocks taken one by one, and the event: or empty
\* id: line of a dropped block leaves the next event's name and id alone.
NoFieldLeakage ==
    (~flushed /\ pos = Len(text)) => events = blockEvents(input, NewEvent)

-----------------------------------------------------------------------------
(* Properties of the stream callback, continued.                           *)

\* C35: every framed event whose trimmed data is '[DONE]' sets
\* shouldBreakLoop and ends the read loop after its chunk, whatever id it
\* carries, an id already seen included.
DoneNeverMasked ==
    (\E i \in DOMAIN events : DoneData(events[i])) =>
        (shouldBreakLoop /\ pc # "reading")

-----------------------------------------------------------------------------
(* Properties of the catch block.                                          *)

\* debugFetch threw a network error: its last fetch rejected with a
\* TypeError and no response was returned
FetchFailedWithNetworkError ==
    /\ fpc = "thrown"
    /\ result # Undefined
    /\ result[1].err.name = "TypeError"

\* C36: onError receives the network-failure explanation only when the
\* fetch itself failed with a network error on its last attempt: never
\* after a response was returned, and never for an abort.
NetworkMessageOnlyForNetworkFailure ==
    \A i \in DOMAIN onErrorCalls :
        onErrorCalls[i] = MSG_NETWORK => (FetchFailedWithNetworkError /\ ~aborted)

-----------------------------------------------------------------------------
(* Properties of updatePage.                                               *)

\* updatePage(params) was called
Called == pc # "idle"

\* C38: updatePage without a conversationId calls onError once with errMsg,
\* fetches nothing and calls neither onPartial nor onComplete; with a
\* conversationId the body sent has that id, unchanged, as conversation_id.
UpdatePageGuard ==
    Called =>
        IF truthy(params.conversationId)
        THEN /\ body # Undefined
             /\ body[1].conversation_id = params.conversationId
             /\ errMsg \notin {onErrorCalls[i] : i \in DOMAIN onErrorCalls}
        ELSE /\ onErrorCalls = <<errMsg>>
             /\ trace = <<>>
             /\ fpc = "idle"
             /\ partials = <<>>
             /\ onCompleteCalls = <<>>

UpdatePageGuardWitness ==
    /\ pc = "returned"
    /\ params.conversationId = Some(<<>>)
    /\ onErrorCalls = <<errMsg>>

-----------------------------------------------------------------------------
(* Properties of the component's handlers.                                 *)

\* the request n awaits its terminal callback
InFlight(n) == requests[n].at = "inflight"

\* the step is the terminal callback of a request that was aborted and
\* has a newer request after it
StaleCallback(n) ==
    /\ InFlight(n)
    /\ requests'[n].at = "done"
    /\ controllers[n].aborted
    /\ n < Len(requests)

\* abortControllerRef.current is the controller of every request that is
\* not done and not aborted
RefHoldsLiveController ==
    \A n \in DOMAIN requests :
        (requests[n].at # "done" /\ ~controllers[n].aborted) => abortControllerRef = n

\* C37: the terminal callback of an aborted request that a newer request
\* followed leaves abortControllerRef, isLoading and error alone, and
\* abortControllerRef.current is the controller of every request in flight
\* that is not aborted.
StaleRequestIsolation ==
    [][/\ \A n \in DOMAIN requests :
             StaleCallback(n) =>
                 /\ abortControllerRef' = abortControllerRef
                 /\ appState'.isLoading = appState.isLoading
                 /\ appState'.error = appState.error
       /\ RefHoldsLiveController']_vars

====
